---- MODULE Spec2Model ----
(***************************************************************************)
(* Verification model of the graph-algorithm core of depstat:              *)
(*   - findAllCyclesWithMaxLength (Johnson's algorithm with Tarjan SCCs)   *)
(*   - getLongestChain                                                     *)
(*   - findAllPaths                                                        *)
(*   - generateGraph                                                       *)
(*   - transitiveReduceEdges / reachableViaDiffPath                        *)
(* Module identifiers are modelled as naturals; their numeric order stands *)
(* for the lexical order of the identifier strings (sort.Strings).         *)
(***************************************************************************)
EXTENDS Integers, Sequences, FiniteSets, TLC

\* ---------------------------------------------------------------------
\* Bounds
\* ---------------------------------------------------------------------
\* number of edges a dependency graph handed to the algorithms may hold
MaxEdges == 4

\* the same, for the specifications that search the larger graphs
MaxEdgesDeep == 5
MaxEdgesSeeded == 6

\* number of modules handed to resolveVanityURLs
MaxMods == 3

\* capacity of the channel sem
SemCap == 20

\* largest cycle-length cap handed to findAllCyclesWithMaxLength
MaxCap == 3

\* largest path cap handed to findAllPaths
MaxPaths == 2

\* number of edges of a graph handed to transitiveReduceEdges
MaxEdgesDiff == 3

\* number of getLongestChain activations the goroutine stack can hold; a
\* deeper recursion ends the program with a stack overflow
MaxDepth == 6

\* number of lines of each of the two texts handed to the diff
MaxSnapshotLines == 2

\* number of lines of the "go mod graph" text handed to generateGraph
MaxLines == 3

\* module identifiers of the algorithm specifications ("A" < "B" < "C" < "D")
Ids == {1, 2, 3, 4}

VARIABLES
    graph,      \* DependencyOverview.Graph: identifier -> adjacency list
    budget,     \* number of edges the input graph may hold
    op,         \* name of the last operation applied ("build" before any)
    maxLength,  \* argument of findAllCyclesWithMaxLength
    cycles,     \* result of findAllCyclesWithMaxLength
    chainStart, \* currentDep argument of the top-level getLongestChain call
    chain,      \* Chain returned by getLongestChain
    longestChains, \* the memo map (after the call, or as it stands mid-call)
    frames,     \* active getLongestChain activations, outermost first
    pathStart,  \* start argument of the top-level findAllPaths call
    pathTarget, \* target argument of findAllPaths
    maxPaths,   \* maxPaths argument of findAllPaths
    paths,      \* *out after the call
    lines,      \* goModGraphOutputString, one <<lhs token, rhs token>> per line
    mainModules, \* mainModules argument of generateGraph
    depGraph,   \* what generateGraph returned
    stats,      \* what computeStats or the stats command made of depGraph
    diffEdges,  \* diffEdges argument of transitiveReduceEdges, as <<from, to>> pairs
    diffNodes,  \* diffNodes argument of transitiveReduceEdges
    reduced,    \* what transitiveReduceEdges returned
    headLines,  \* "go mod graph" text at the head ref (lines holds the base ref's)
    filter,     \* "test-only", "non-test-only" or "" for neither flag
    baseTestOnly, \* modules classifyTestDeps found test-only at the base ref
    headTestOnly, \* the same at the head ref
    diffResult, \* DiffResult of the diff from base to head
    diffSwapped, \* DiffResult of the diff with the two refs exchanged
    vcBase,     \* base argument of computeVersionChanges
    vcHead,     \* head argument of computeVersionChanges
    versionChanges, \* what computeVersionChanges returned
    finderRun,  \* what was observed inside the last cycle-finder run
    lateCalls,  \* calls of findAllPaths made after the cap was reached
    pc,         \* the statement of runDiff that runs next
    repoHead,   \* what the repository has checked out
    dirty,      \* the working tree holds uncommitted changes
    originalRef, \* runDiff's originalRef
    baseSHA,    \* runDiff's baseSHA
    headSHA,    \* runDiff's headSHA
    needClassification, \* runDiff's needClassification
    deferred,   \* the deferred functions of runDiff, in order of registration
    gitLog,     \* the checkouts, graph constructions and classifications so far
    exit,       \* how the diff command ended
    mods,       \* the modules handed to resolveVanityURLs, by their paths
    spawned,    \* number of goroutines the loop over mods has started
    gpc,        \* the statement each goroutine runs next
    repoOf,     \* each goroutine's repo
    sliceRead,  \* the slice each goroutine's append has read
    mu,         \* the goroutine that holds the mutex, or 0
    sem,        \* number of elements in the channel sem
    wg,         \* the counter of the wait group
    resolved,   \* the map resolved
    unresolved, \* the slice unresolved
    vanityPc    \* the statement resolveVanityURLs runs next

cycVars == <<maxLength, cycles, finderRun>>
chainVars == <<chainStart, chain, longestChains, frames>>
pathVars == <<pathStart, pathTarget, maxPaths, paths, lateCalls>>
genVars == <<lines, mainModules, depGraph, stats>>
diffVars == <<diffEdges, diffNodes, reduced>>
snapVars == <<headLines, filter, baseTestOnly, headTestOnly, diffResult, diffSwapped>>
vcVars == <<vcBase, vcHead, versionChanges>>
gitVars == <<pc, repoHead, dirty, originalRef, baseSHA, headSHA, needClassification,
             deferred, gitLog, exit>>
vanVars == <<mods, spawned, gpc, repoOf, sliceRead, mu, sem, wg, resolved, unresolved,
             vanityPc>>
vars == <<graph, budget, op, cycVars, chainVars, pathVars, genVars, diffVars, snapVars,
         vcVars, gitVars, vanVars>>

\* ---------------------------------------------------------------------
\* Slice helpers
\* ---------------------------------------------------------------------
Range(s) == {s[i] : i \in 1..Len(s)}

\* contains / containsInt: linear membership test on a slice
contains(s, x) == \E i \in 1..Len(s) : s[i] = x

\* sort.Strings over a set of identifiers: the ascending sequence of S
RECURSIVE SortSet(_)
SortSet(S) ==
    IF S = {} THEN <<>>
    ELSE LET m == CHOOSE x \in S : \A y \in S : x <= y
         IN <<m>> \o SortSet(S \ {m})

IsDupFree(s) == \A i, j \in 1..Len(s) : i # j => s[i] # s[j]

NumEdges(g) ==
    LET RECURSIVE Sum(_)
        Sum(S) == IF S = {} THEN 0
                  ELSE LET x == CHOOSE y \in S : TRUE
                       IN Len(g[x]) + Sum(S \ {x})
    IN Sum(DOMAIN g)

EmptyGraph == [n \in Ids |-> <<>>]

\* ---------------------------------------------------------------------
\* Cycle finder
\* ---------------------------------------------------------------------
\* nodeIndex: position (from 0) of an identifier in the sorted node list
nodeIndex(cf, name) == (CHOOSE i \in 1..Len(cf.indexNode) : cf.indexNode[i] = name) - 1

\* indexNode[i] for a 0-based index
nodeName(cf, i) == cf.indexNode[i + 1]

\* adjacency list of the node with index v
adjOf(cf, v) == cf.graph[nodeName(cf, v)]

hasSelfLoop(cf, nodeIdx) ==
    \E i \in 1..Len(adjOf(cf, nodeIdx)) : nodeIndex(cf, adjOf(cf, nodeIdx)[i]) = nodeIdx

\* the nil slice returned by strongConnect / findSCCContaining (no index is -1)
Nil == <<-1>>

Min(a, b) == IF a < b THEN a ELSE b

\* state of one findSCCContaining call (the closure variables of strongConnect)
TarjanInit ==
    [index |-> 0, indices |-> <<>>, lowlinks |-> <<>>, onStack |-> {},
     stack |-> <<>>, ret |-> Nil]

\* the pop loop of strongConnect: pops until w = v, returns <<scc, rest of stack>>
RECURSIVE popSCC(_, _, _)
popSCC(stack, v, scc) ==
    LET w == stack[Len(stack)]
        rest == SubSeq(stack, 1, Len(stack) - 1)
    IN IF w = v THEN <<Append(scc, w), rest>>
       ELSE popSCC(rest, v, Append(scc, w))

RECURSIVE strongConnect(_, _, _, _)
RECURSIVE strongConnectLoop(_, _, _, _, _)

\* the tail of strongConnect after the neighbor loop
strongConnectRoot(cf, startIdx, v, ts) ==
    IF ts.lowlinks[v] = ts.indices[v]
    THEN LET p == popSCC(ts.stack, v, <<>>)
             scc == p[1]
             ts1 == [ts EXCEPT !.stack = p[2], !.onStack = @ \ Range(scc)]
         IN IF contains(scc, startIdx) /\ (Len(scc) > 1 \/ hasSelfLoop(cf, startIdx))
            THEN [ts1 EXCEPT !.ret = scc]
            ELSE [ts1 EXCEPT !.ret = Nil]
    ELSE [ts EXCEPT !.ret = Nil]

\* faulty variant: the neighbor loop without the restriction to indices >= startIdx
strongConnectLoopAll(cf, startIdx, v, i, ts) ==
    IF i > Len(adjOf(cf, v)) THEN strongConnectRoot(cf, startIdx, v, ts)
    ELSE LET neighborIdx == nodeIndex(cf, adjOf(cf, v)[i])
         IN IF neighborIdx \notin DOMAIN ts.indices
            THEN LET r == strongConnect(cf, startIdx, neighborIdx, ts)
                 IN IF r.ret # Nil /\ contains(r.ret, startIdx)
                    THEN r
                    ELSE strongConnectLoop(cf, startIdx, v, i + 1,
                            [r EXCEPT !.ret = Nil,
                                      !.lowlinks[v] = Min(@, r.lowlinks[neighborIdx])])
            ELSE IF neighborIdx \in ts.onStack
            THEN strongConnectLoop(cf, startIdx, v, i + 1,
                    [ts EXCEPT !.lowlinks[v] = Min(@, ts.indices[neighborIdx])])
            ELSE strongConnectLoop(cf, startIdx, v, i + 1, ts)

\* the neighbor loop of strongConnect, from position i of the adjacency list
strongConnectLoop(cf, startIdx, v, i, ts) ==
    IF i > Len(adjOf(cf, v)) THEN strongConnectRoot(cf, startIdx, v, ts)
    ELSE LET neighborIdx == nodeIndex(cf, adjOf(cf, v)[i])
         IN IF neighborIdx < startIdx
            THEN strongConnectLoop(cf, startIdx, v, i + 1, ts)
            ELSE IF neighborIdx \notin DOMAIN ts.indices
            THEN LET r == strongConnect(cf, startIdx, neighborIdx, ts)
                 IN IF r.ret # Nil /\ contains(r.ret, startIdx)
                    THEN r
                    ELSE strongConnectLoop(cf, startIdx, v, i + 1,
                            [r EXCEPT !.ret = Nil,
                                      !.lowlinks[v] = Min(@, r.lowlinks[neighborIdx])])
            ELSE IF neighborIdx \in ts.onStack
            THEN strongConnectLoop(cf, startIdx, v, i + 1,
                    [ts EXCEPT !.lowlinks[v] = Min(@, ts.indices[neighborIdx])])
            ELSE strongConnectLoop(cf, startIdx, v, i + 1, ts)

strongConnect(cf, startIdx, v, ts) ==
    strongConnectLoop(cf, startIdx, v, 1,
        [ts EXCEPT !.index = @ + 1,
                   !.indices = (v :> ts.index) @@ @,
                   !.lowlinks = (v :> ts.index) @@ @,
                   !.stack = Append(@, v),
                   !.onStack = @ \cup {v}])

\* "Check other nodes in subgraph that might reach startIdx"
RECURSIVE sccOtherNodes(_, _, _, _)
sccOtherNodes(cf, startIdx, i, ts) ==
    IF i >= Len(cf.indexNode) THEN Nil
    ELSE IF i \notin DOMAIN ts.indices
    THEN LET r == strongConnect(cf, startIdx, i, ts)
         IN IF r.ret # Nil /\ contains(r.ret, startIdx) THEN r.ret
            ELSE sccOtherNodes(cf, startIdx, i + 1, r)
    ELSE sccOtherNodes(cf, startIdx, i + 1, ts)

\* the SCC containing startIdx in the subgraph induced by indices >= startIdx;
\* Nil when that SCC is a single node without a self-loop
findSCCContaining(cf, startIdx) ==
    LET r == strongConnect(cf, startIdx, startIdx, TarjanInit)
    IN IF r.ret # Nil THEN r.ret
       ELSE sccOtherNodes(cf, startIdx, startIdx, r)

\* unblock: clears blocked[v] and cascades over blockedMap[v]
RECURSIVE unblock(_, _)
RECURSIVE unblockLoop(_, _)
RECURSIVE unblockAny(_, _)
RECURSIVE unblockLoopAny(_, _)

\* delete(cf.blockedMap[v], w)
deleteEntry(cf, v, w) ==
    [cf EXCEPT !.blockedMap =
        [x \in DOMAIN cf.blockedMap |->
            IF x = v THEN cf.blockedMap[x] \ {w} ELSE cf.blockedMap[x]]]

\* faulty variant: the range loop leaves after the first entry it is handed
unblockLoopFirstEntry(cf, v) ==
    IF cf.blockedMap[v] = {} THEN {cf}
    ELSE UNION {LET cf1 == deleteEntry(cf, v, w)
                IN IF w \in cf1.blocked THEN unblockAny(cf1, w) ELSE {cf1}
                : w \in cf.blockedMap[v]}

\* "for w := range cf.blockedMap[v]": the runtime hands out the entries of a
\* map in an order of its own choosing, so the loop has one outcome per order
unblockLoopAny(cf, v) ==
    IF cf.blockedMap[v] = {} THEN {cf}
    ELSE UNION {LET cf1 == deleteEntry(cf, v, w)
                IN IF w \in cf1.blocked
                   THEN UNION {unblockLoopAny(c, v) : c \in unblockAny(cf1, w)}
                   ELSE unblockLoopAny(cf1, v)
                : w \in cf.blockedMap[v]}

\* every finder state one call of unblock(v) can end in
unblockAny(cf, v) == unblockLoopAny([cf EXCEPT !.blocked = @ \ {v}], v)

\* what a finder state holds apart from the observations made on the run,
\* blockedMap entry by entry
finderState(cf) ==
    <<cf.blocked, {<<i, cf.blockedMap[i]>> : i \in DOMAIN cf.blockedMap},
      cf.stack, cf.cycles>>

\* the observations of one unblock(v) call: the largest blockedMap entry set
\* ranged over, and whether every iteration order ends in the state r
observeUnblock(cf, v, r) ==
    [f \in DOMAIN r |->
        IF f = "fanout"
        THEN IF Cardinality(cf.blockedMap[v]) > r.fanout
             THEN Cardinality(cf.blockedMap[v]) ELSE r.fanout
        ELSE IF f = "orderFree"
        THEN r.orderFree /\ ({finderState(c) : c \in unblockAny(cf, v)}
                               = {finderState(r)})
        ELSE r[f]]

unblockLoop(cf, v) ==
    IF cf.blockedMap[v] = {} THEN cf
    ELSE LET w == CHOOSE x \in cf.blockedMap[v] : \A y \in cf.blockedMap[v] : x <= y
             cf1 == deleteEntry(cf, v, w)
         IN IF w \in cf1.blocked
            THEN unblockLoop(unblock(cf1, w), v)
            ELSE unblockLoop(cf1, v)

\* faulty variant: cascades over blockedMap[v] but leaves blocked[v] set
unblockKeepBlocked(cf, v) == unblockLoop(cf, v)

unblock(cf, v) ==
    observeUnblock(cf, v, unblockLoop([cf EXCEPT !.blocked = @ \ {v}], v))

\* stack of indices -> chain of identifiers, closed with the start node
cycleOf(cf, start) ==
    [i \in 1..(Len(cf.stack) + 1) |->
        IF i <= Len(cf.stack) THEN nodeName(cf, cf.stack[i]) ELSE nodeName(cf, start)]

\* the else-branch after the neighbor loop: record v in the B-sets of its
\* neighbors inside the SCC
blockNeighbors(cf, v, sccSet) ==
    LET nbs == {nodeIndex(cf, adjOf(cf, v)[i]) : i \in 1..Len(adjOf(cf, v))} \cap sccSet
    IN [cf EXCEPT !.blockedMap =
            [w \in DOMAIN cf.blockedMap |->
                IF w \in nbs THEN cf.blockedMap[w] \cup {v} ELSE cf.blockedMap[w]]]

RECURSIVE circuit(_, _, _, _)
RECURSIVE circuitLoop(_, _, _, _, _, _)

\* faulty variant: the cap is tested where a cycle is recorded but not
\* where the path is extended
circuitLoopCapOnRecord(cf, v, start, sccSet, i, found) ==
    IF i > Len(adjOf(cf, v))
    THEN LET cf1 == IF found THEN unblock(cf, v) ELSE blockNeighbors(cf, v, sccSet)
         IN [cf |-> [cf1 EXCEPT !.stack = SubSeq(@, 1, Len(@) - 1)], found |-> found]
    ELSE LET neighborIdx == nodeIndex(cf, adjOf(cf, v)[i])
         IN IF neighborIdx \notin sccSet
            THEN circuitLoop(cf, v, start, sccSet, i + 1, found)
            ELSE IF neighborIdx = start
            THEN IF cf.maxLength = 0 \/ Len(cf.stack) <= cf.maxLength
                 THEN circuitLoop([cf EXCEPT !.cycles = Append(@, cycleOf(cf, start))],
                                  v, start, sccSet, i + 1, TRUE)
                 ELSE circuitLoop(cf, v, start, sccSet, i + 1, found)
            ELSE IF neighborIdx \notin cf.blocked
            THEN LET r == circuit(cf, neighborIdx, start, sccSet)
                 IN circuitLoop(r.cf, v, start, sccSet, i + 1, found \/ r.found)
            ELSE circuitLoop(cf, v, start, sccSet, i + 1, found)

\* the neighbor loop of circuit from position i, then the unblock / B-set
\* step and the pop; returns the finder and the found flag
circuitLoop(cf, v, start, sccSet, i, found) ==
    IF i > Len(adjOf(cf, v))
    THEN LET cf1 == IF found THEN unblock(cf, v) ELSE blockNeighbors(cf, v, sccSet)
         IN [cf |-> [cf1 EXCEPT !.stack = SubSeq(@, 1, Len(@) - 1)], found |-> found]
    ELSE LET neighborIdx == nodeIndex(cf, adjOf(cf, v)[i])
         IN IF neighborIdx \notin sccSet
            THEN circuitLoop(cf, v, start, sccSet, i + 1, found)
            ELSE IF neighborIdx = start
            THEN IF cf.maxLength = 0 \/ Len(cf.stack) <= cf.maxLength
                 THEN circuitLoop([cf EXCEPT !.cycles = Append(@, cycleOf(cf, start))],
                                  v, start, sccSet, i + 1, TRUE)
                 ELSE circuitLoop(cf, v, start, sccSet, i + 1, found)
            ELSE IF neighborIdx \notin cf.blocked
                    /\ (cf.maxLength = 0 \/ Len(cf.stack) < cf.maxLength)
            THEN LET r == circuit(cf, neighborIdx, start, sccSet)
                 IN circuitLoop(r.cf, v, start, sccSet, i + 1, found \/ r.found)
            ELSE circuitLoop(cf, v, start, sccSet, i + 1, found)

circuit(cf, v, start, sccSet) ==
    circuitLoop([cf EXCEPT !.stack = Append(@, v), !.blocked = @ \cup {v},
                           !.peak = IF Len(cf.stack) + 1 > @
                                    THEN Len(cf.stack) + 1 ELSE @],
                v, start, sccSet, 1, FALSE)

\* the loop over start indices of findAllCyclesWithMaxLength
RECURSIVE cyclesFrom(_, _)
cyclesFrom(cf, startIdx) ==
    IF startIdx >= Len(cf.indexNode) THEN cf
    ELSE LET subgraphSCC == findSCCContaining(cf, startIdx)
         IN IF subgraphSCC # Nil /\ Len(subgraphSCC) > 0
            THEN LET sccSet == Range(subgraphSCC)
                     cf1 == [cf EXCEPT
                               !.blocked = @ \ sccSet,
                               !.blockedMap = [w \in DOMAIN cf.blockedMap |->
                                                 IF w \in sccSet THEN {}
                                                 ELSE cf.blockedMap[w]]]
                 IN cyclesFrom(circuit(cf1, startIdx, startIdx, sccSet).cf, startIdx + 1)
            ELSE cyclesFrom(cf, startIdx + 1)

\* every identifier that is a key with edges or an edge target
nodeSetOf(g) == {n \in DOMAIN g : g[n] # <<>>} \cup UNION {Range(g[n]) : n \in DOMAIN g}

newCyclesFinder(g, k) ==
    LET nodes == SortSet(nodeSetOf(g))
    IN [graph |-> g, indexNode |-> nodes, blocked |-> {},
        blockedMap |-> [i \in 0..(Len(nodes) - 1) |-> {}],
        stack |-> <<>>, cycles |-> <<>>, maxLength |-> k,
        orderFree |-> TRUE, fanout |-> 0, peak |-> 0]

\* the finder after the loop over start indices
runCyclesFinder(g, k) == cyclesFrom(newCyclesFinder(g, k), 0)

findAllCyclesWithMaxLength(g, k) == runCyclesFinder(g, k).cycles

\* nothing observed: no cycle-finder run yet
NoFinderRun == [orderFree |-> TRUE, fanout |-> 0, peak |-> 0]

findAllCycles(g) == findAllCyclesWithMaxLength(g, 0)

\* ---------------------------------------------------------------------
\* Longest chain
\* ---------------------------------------------------------------------
RECURSIVE getLongestChain(_, _, _, _)
RECURSIVE longestDepChain(_, _, _, _, _, _)

\* faulty variant: the chain of the first dependency that has one is kept,
\* whatever the chains of the later ones
longestDepChainFirstFound(currentDep, g, currentChain, memo, i, best) ==
    IF i > Len(g[currentDep])
    THEN [chain |-> <<currentDep>> \o best,
          longestChains |-> (currentDep :> (<<currentDep>> \o best)) @@ memo]
    ELSE LET r == getLongestChain(g[currentDep][i], g, currentChain, memo)
         IN longestDepChain(currentDep, g, currentChain, r.longestChains, i + 1,
                            IF Len(best) = 0 THEN r.chain ELSE best)

\* the loop over deps and the final memo write; best is longestDepChain so far
longestDepChain(currentDep, g, currentChain, memo, i, best) ==
    IF i > Len(g[currentDep])
    THEN [chain |-> <<currentDep>> \o best,
          longestChains |-> (currentDep :> (<<currentDep>> \o best)) @@ memo]
    ELSE LET r == getLongestChain(g[currentDep][i], g, currentChain, memo)
         IN longestDepChain(currentDep, g, currentChain, r.longestChains, i + 1,
                            IF Len(r.chain) > Len(best) THEN r.chain ELSE best)

\* faulty variant: a node found on the active chain is answered with the
\* one-node chain instead of nil
getLongestChainReentered(currentDep, g, currentChain, memo) ==
    IF currentDep \in DOMAIN memo
    THEN [chain |-> memo[currentDep], longestChains |-> memo]
    ELSE IF Len(g[currentDep]) = 0
    THEN [chain |-> <<currentDep>>,
          longestChains |-> (currentDep :> <<currentDep>>) @@ memo]
    ELSE IF contains(currentChain, currentDep)
    THEN [chain |-> <<currentDep>>, longestChains |-> memo]
    ELSE longestDepChain(currentDep, g, Append(currentChain, currentDep), memo, 1, <<>>)

\* returns the chain (<<>> for nil) and the memo map as left by the call
getLongestChain(currentDep, g, currentChain, memo) ==
    IF currentDep \in DOMAIN memo
    THEN [chain |-> memo[currentDep], longestChains |-> memo]
    ELSE IF Len(g[currentDep]) = 0
    THEN [chain |-> <<currentDep>>,
          longestChains |-> (currentDep :> <<currentDep>>) @@ memo]
    ELSE IF contains(currentChain, currentDep)
    THEN [chain |-> <<>>, longestChains |-> memo]
    ELSE longestDepChain(currentDep, g, Append(currentChain, currentDep), memo, 1, <<>>)

\* ---------------------------------------------------------------------
\* Path finder
\* ---------------------------------------------------------------------
\* faulty variant: the cap is only noticed once it has been exceeded
capReachedLate(out, n) == n > 0 /\ Len(out) > n

\* "maxPaths > 0 && len(*out) >= maxPaths", tested on entry and after
\* every recursive call
capReached(out, n) == n > 0 /\ Len(out) >= n

\* the output list and the visited map of a search that has not begun, and
\* the number of calls made when the cap had been reached already
NoPaths == [out |-> <<>>, visited |-> {}, late |-> 0]

RECURSIVE findAllPaths(_, _, _, _, _, _)
RECURSIVE findAllPathsLoop(_, _, _, _, _, _, _)

\* faulty variant: the loop goes on after the cap is reached and leaves it
\* to the test on entry to stop each further call
findAllPathsLoopToEnd(start, target, g, currentPath, st, n, i) ==
    IF i > Len(g[start]) THEN st
    ELSE findAllPathsLoop(start, target, g, currentPath,
                          findAllPaths(g[start][i], target, g, currentPath, st, n),
                          n, i + 1)

\* the loop over graph[start], from position i
findAllPathsLoop(start, target, g, currentPath, st, n, i) ==
    IF i > Len(g[start]) THEN st
    ELSE LET r == findAllPaths(g[start][i], target, g, currentPath, st, n)
         IN IF capReached(r.out, n) THEN r
            ELSE findAllPathsLoop(start, target, g, currentPath, r, n, i + 1)

\* faulty variant: the deferred reset of visited[start] is missing
findAllPathsNoReset(start, target, g, currentPath, st, n) ==
    IF capReached(st.out, n) THEN [st EXCEPT !.late = @ + 1]
    ELSE LET path == Append(currentPath, start)
         IN IF start = target THEN [st EXCEPT !.out = Append(@, path)]
            ELSE IF start \in st.visited THEN st
            ELSE findAllPathsLoop(start, target, g, path,
                                  [st EXCEPT !.visited = @ \cup {start}], n, 1)

\* st holds *out and visited; the deferred reset of visited[start] runs when
\* the loop is left
findAllPaths(start, target, g, currentPath, st, n) ==
    IF capReached(st.out, n) THEN [st EXCEPT !.late = @ + 1]
    ELSE LET path == Append(currentPath, start)
         IN IF start = target THEN [st EXCEPT !.out = Append(@, path)]
            ELSE IF start \in st.visited THEN st
            ELSE LET r == findAllPathsLoop(start, target, g, path,
                                           [st EXCEPT !.visited = @ \cup {start}], n, 1)
                 IN [r EXCEPT !.visited = @ \ {start}]

\* ---------------------------------------------------------------------
\* Graph builder
\* ---------------------------------------------------------------------
\* version strings are sequences of bytes; "" is the empty sequence
NoVersion == <<>>
V1 == <<1>>
V2 == <<2>>

\* Go's string comparison a < b: byte-wise, a proper prefix is smaller
RECURSIVE strLess(_, _)
strLess(a, b) ==
    IF b = <<>> THEN FALSE
    ELSE IF a = <<>> THEN TRUE
    ELSE IF a[1] # b[1] THEN a[1] < b[1]
    ELSE strLess(Tail(a), Tail(b))

\* the identifiers "go" and "toolchain..." of the toolchain pseudo-lines
GoName == 0
ToolchainName == -1

\* parseModule applied to a token: a token is held as the pair of the text
\* before the first "@" and the text after it ("" when there is no "@")
parseModule(token) == [name |-> token[1], version |-> token[2]]

\* lookup in a Go map: the zero value when the key is absent
Get(m, k, zero) == IF k \in DOMAIN m THEN m[k] ELSE zero

Put(m, k, v) == (k :> v) @@ m

\* locals of generateGraph after construction, before the first line
newGenState(mm) ==
    [MainModules |-> mm, versionedGraph |-> <<>>, lhss |-> <<>>,
     versionedMainModules |-> <<>>, seenVersionedMainModules |-> {},
     panic |-> FALSE]

\* faulty variant: the default main module is recorded before the go
\* toolchain lines are skipped
scanLineDefaultBeforeSkip(st, words, mm) ==
    IF Len(words) < 1 THEN [st EXCEPT !.panic = TRUE]
    ELSE
    LET lhs == parseModule(words[1])
        rhs == parseModule(words[2])
        isRoot == (Len(st.versionedMainModules) = 0 \/ contains(mm, lhs.name))
                  /\ lhs \notin st.seenVersionedMainModules
        st1 == [st EXCEPT !.MainModules = IF Len(@) = 0 THEN <<lhs.name>> ELSE @]
    IN IF lhs.name = GoName \/ lhs.name = ToolchainName THEN st1
       ELSE IF Len(words) < 2 THEN [st EXCEPT !.panic = TRUE]
       ELSE [st1 EXCEPT
               !.versionedMainModules = IF isRoot THEN Append(@, lhs) ELSE @,
               !.seenVersionedMainModules = IF isRoot THEN @ \cup {lhs} ELSE @,
               !.lhss = IF Len(Get(st.versionedGraph, lhs, <<>>)) = 0
                        THEN Append(@, lhs) ELSE @,
               !.versionedGraph = Put(@, lhs, Append(Get(@, lhs, <<>>), rhs))]

\* one iteration of the scanner loop on the fields of a line; words[0] and
\* words[1] of the source are words[1] and words[2] here, and an index
\* past the end of words is a run-time panic
scanLine(st, words, mm) ==
    IF Len(words) < 1 THEN [st EXCEPT !.panic = TRUE]
    ELSE
    LET lhs == parseModule(words[1])
        rhs == parseModule(words[2])
        isRoot == (Len(st.versionedMainModules) = 0 \/ contains(mm, lhs.name))
                  /\ lhs \notin st.seenVersionedMainModules
    IN IF lhs.name = GoName \/ lhs.name = ToolchainName THEN st
       ELSE IF Len(words) < 2 THEN [st EXCEPT !.panic = TRUE]
       ELSE [st EXCEPT
               !.versionedMainModules = IF isRoot THEN Append(@, lhs) ELSE @,
               !.seenVersionedMainModules = IF isRoot THEN @ \cup {lhs} ELSE @,
               !.MainModules = IF Len(@) = 0 THEN <<lhs.name>> ELSE @,
               !.lhss = IF Len(Get(st.versionedGraph, lhs, <<>>)) = 0
                        THEN Append(@, lhs) ELSE @,
               !.versionedGraph = Put(@, lhs, Append(Get(@, lhs, <<>>), rhs))]

RECURSIVE scanLines(_, _, _, _)
scanLines(st, text, mm, i) ==
    IF i > Len(text) \/ st.panic THEN st
    ELSE scanLines(scanLine(st, text[i], mm), text, mm, i + 1)

\* effective versions required by the main modules: for every module a
\* versioned main module requires, the greatest version required
RECURSIVE requiredVersions(_, _, _, _)
requiredVersions(st, eff, i, j) ==
    IF i > Len(st.versionedMainModules) THEN eff
    ELSE LET deps == Get(st.versionedGraph, st.versionedMainModules[i], <<>>)
         IN IF j > Len(deps) THEN requiredVersions(st, eff, i + 1, 1)
            ELSE LET m == deps[j]
                 IN IF strLess(Get(eff, m.name, NoVersion), m.version)
                    THEN requiredVersions(st, Put(eff, m.name, m.version), i, j + 1)
                    ELSE requiredVersions(st, eff, i, j + 1)

\* the edges "from v to each module v requires", in order
edgesFrom(st, v) ==
    LET deps == Get(st.versionedGraph, v, <<>>)
    IN [k \in 1..Len(deps) |-> [from |-> v, to |-> deps[k]]]

\* the traversal of toVisit; r holds effectiveVersions and reachableModules
RECURSIVE visitAll(_, _, _)
visitAll(st, r, toVisit) ==
    IF Len(toVisit) = 0 THEN r
    ELSE LET from == toVisit[1].from
             v == toVisit[1].to
             rest == Tail(toVisit)
         IN IF v.name \in DOMAIN r.reachableModules THEN visitAll(st, r, rest)
            ELSE LET replace == v.name \in DOMAIN r.effectiveVersions
                                /\ strLess(v.version, r.effectiveVersions[v.name])
                     v1 == IF replace
                           THEN [v EXCEPT !.version = r.effectiveVersions[v.name]]
                           ELSE v
                     r1 == [reachableModules |-> Put(r.reachableModules, v.name, from),
                            effectiveVersions |->
                                IF replace THEN r.effectiveVersions
                                ELSE Put(r.effectiveVersions, v.name, v.version)]
                 IN visitAll(st, r1, rest \o edgesFrom(st, v1))

\* the zero module, the "from" of the root entries of toVisit
NoModule == [name |-> GoName, version |-> NoVersion]

resolve(st) ==
    visitAll(st,
             [reachableModules |-> <<>>,
              effectiveVersions |-> requiredVersions(st, <<>>, 1, 1)],
             [k \in 1..Len(st.versionedMainModules) |->
                 [from |-> NoModule, to |-> st.versionedMainModules[k]]])

\* faulty variant: the version of the lhs is not compared with the
\* effective version
isEffectiveAnyVersion(r, lhs) == lhs.name \in DOMAIN r.reachableModules

\* faulty variant: the lhs is not required to be reachable
isEffectiveUnreached(r, lhs) ==
    ~(lhs.name \in DOMAIN r.effectiveVersions
      /\ r.effectiveVersions[lhs.name] # lhs.version)

\* the lhs modules whose lines are emitted: reachable, at the effective version
isEffective(r, lhs) ==
    /\ lhs.name \in DOMAIN r.reachableModules
    /\ ~(lhs.name \in DOMAIN r.effectiveVersions
         /\ r.effectiveVersions[lhs.name] # lhs.version)

\* faulty variant: a dependency of a non-main module is listed as direct
classifyAllDirect(d, lhsName, rhsName) ==
    IF contains(d.MainModules, lhsName) /\ contains(d.MainModules, rhsName) THEN d
    ELSE [d EXCEPT !.DirectDepList = IF contains(@, rhsName) THEN @ ELSE Append(@, rhsName)]

\* the direct / transitive classification of one emitted edge
classify(d, lhsName, rhsName) ==
    IF contains(d.MainModules, lhsName) /\ contains(d.MainModules, rhsName) THEN d
    ELSE IF contains(d.MainModules, lhsName)
    THEN [d EXCEPT !.DirectDepList = IF contains(@, rhsName) THEN @ ELSE Append(@, rhsName)]
    ELSE [d EXCEPT !.TransDepList = IF contains(@, rhsName) THEN @ ELSE Append(@, rhsName)]

\* one edge lhs -> rhs added to the graph and classified
emitEdge(d, lhsName, rhsName) ==
    classify([d EXCEPT !.Graph =
                 IF contains(Get(@, lhsName, <<>>), rhsName) THEN @
                 ELSE Put(@, lhsName, Append(Get(@, lhsName, <<>>), rhsName))],
             lhsName, rhsName)

\* the final loop over lhss (i) and over versionedGraph[lhs] (j)
RECURSIVE emitAll(_, _, _, _, _)
emitAll(st, r, d, i, j) ==
    IF i > Len(st.lhss) THEN d
    ELSE LET lhs == st.lhss[i]
             deps == Get(st.versionedGraph, lhs, <<>>)
         IN IF ~isEffective(r, lhs) \/ j > Len(deps) THEN emitAll(st, r, d, i + 1, 1)
            ELSE emitAll(st, r, emitEdge(d, lhs.name, deps[j].name), i, j + 1)

\* a DependencyOverview with nothing in it
NoOverview ==
    [Graph |-> <<>>, DirectDepList |-> <<>>, TransDepList |-> <<>>, MainModules |-> <<>>,
     effectiveVersions |-> <<>>, reachableModules |-> <<>>, versionedMainModules |-> <<>>,
     panic |-> FALSE]

\* no DependencyOverview: generateGraph ended in a run-time panic
Panicked == [NoOverview EXCEPT !.panic = TRUE]

\* the DependencyOverview returned for the text and the main-module list;
\* the locals effectiveVersions, reachableModules and versionedMainModules
\* are kept beside it
generateGraph(text, mm) ==
    LET st == scanLines(newGenState(mm), text, mm, 1)
        r == resolve(st)
        d == emitAll(st, r, [NoOverview EXCEPT !.MainModules = st.MainModules], 1, 1)
    IN IF st.panic THEN Panicked
       ELSE [d EXCEPT !.effectiveVersions = r.effectiveVersions,
                      !.reachableModules = r.reachableModules,
                      !.versionedMainModules = st.versionedMainModules]

\* tokens of the modules the enumerated inputs are made of: A, B@v1, B@v2, C@v1
Tokens == {<<1, NoVersion>>, <<2, V1>>, <<2, V2>>, <<3, V1>>}

\* the fields of the line "go@v1 toolchain@v1"
ToolchainLine == <<<<GoName, V1>>, <<ToolchainName, V1>>>>

\* the lines the enumerated inputs are made of; no module is listed as
\* requiring itself at its own version
Lines == {l \in Tokens \X Tokens : l[1] # l[2]} \cup {ToolchainLine}

\* the bytes of "v1.9.0", "v1.10.0" and "z": 'v' 118, '.' 46, '0'..'9'
\* 48..57, 'z' 122
V1_9_0 == <<118, 49, 46, 57, 46, 48>>
V1_10_0 == <<118, 49, 46, 49, 48, 46, 48>>
VZ == <<122>>

\* tokens and lines of the inputs that request B at release versions:
\* A, B@v1.9.0, B@v1.10.0, B@z, C@v1.9.0
VersionTokens ==
    {<<1, NoVersion>>, <<2, V1_9_0>>, <<2, V1_10_0>>, <<2, VZ>>, <<3, V1_9_0>>}

VersionLines == {l \in VersionTokens \X VersionTokens : l[1] # l[2]}

\* lines with fewer than two fields: a blank line, "A", and "go@v1"
MalformedLines == {<<>>, << <<1, NoVersion>> >>, << <<GoName, V1>> >>}

\* the main-module lists handed to generateGraph: none, [A], [B], [A, B],
\* [C], [A, D]
MainModuleLists == {<<>>, <<1>>, <<2>>, <<1, 2>>, <<3>>, <<1, 4>>}

\* the input of Test_generateGraph_overridden_versions, A..G as 1..7
OverriddenVersions ==
    << <<<<1, NoVersion>>, <<2, V2>>>>, <<<<1, NoVersion>>, <<3, V2>>>>,
       <<<<1, NoVersion>>, <<4, V2>>>>, <<<<2, V2>>, <<3, V1>>>>,
       <<<<3, V1>>, <<4, V1>>>>, <<<<4, V1>>, <<3, V1>>>>,
       <<<<4, V1>>, <<5, V1>>>>, <<<<3, V2>>, <<4, V2>>>>,
       <<<<3, V2>>, <<6, V2>>>>, <<<<4, V2>>, <<3, V2>>>>,
       <<<<4, V2>>, <<7, V2>>>> >>

\* ---------------------------------------------------------------------
\* Diff engine: transitive reduction of the diff edges
\* ---------------------------------------------------------------------
\* an edge string "from -> to" is held as the pair its split gives
EdgesOf(g) == UNION {{<<a, g[a][k]>> : k \in 1..Len(g[a])} : a \in DOMAIN g}

\* the nodes an edge of D starts from or ends at
Endpoints(D) == {e[1] : e \in D} \cup {e[2] : e \in D}

\* a set of edges as a list in ascending order
RECURSIVE SortEdges(_)
SortEdges(S) ==
    IF S = {} THEN <<>>
    ELSE LET m == CHOOSE x \in S : \A y \in S :
                      x[1] < y[1] \/ (x[1] = y[1] /\ x[2] <= y[2])
         IN <<m>> \o SortEdges(S \ {m})

\* faulty variant: no projection, the search walks the full graph
subGraphOfFullGraph(fullGraph, nodes) == fullGraph

\* the full graph projected onto the diff-relevant nodes
subGraphOf(fullGraph, nodes) ==
    [n \in DOMAIN fullGraph |->
        IF n \in nodes
        THEN LET keep(m) == m \in nodes IN SelectSeq(fullGraph[n], keep)
        ELSE <<>>]

\* one neighbor n reached with flag hasDiff: marked and queued unless it was
\* reached with that flag before
markReached(st, n, hasDiff) ==
    IF hasDiff
    THEN IF n \in st.reachedWithDiff THEN st
         ELSE [st EXCEPT !.reachedWithDiff = @ \cup {n},
                         !.queue = Append(@, [node |-> n, hasDiff |-> TRUE])]
    ELSE IF n \in st.reachedNoDiff THEN st
         ELSE [st EXCEPT !.reachedNoDiff = @ \cup {n},
                         !.queue = Append(@, [node |-> n, hasDiff |-> FALSE])]

\* the first loop: the neighbors of src other than dst
RECURSIVE seedQueue(_, _, _, _, _, _)
seedQueue(st, src, dst, g, diffEdgeSet, i) ==
    IF i > Len(g[src]) THEN st
    ELSE LET n == g[src][i]
         IN IF n = dst THEN seedQueue(st, src, dst, g, diffEdgeSet, i + 1)
            ELSE seedQueue(markReached(st, n, <<src, n>> \in diffEdgeSet),
                           src, dst, g, diffEdgeSet, i + 1)

\* the neighbors of the node taken from the queue
RECURSIVE expand(_, _, _, _, _)
expand(st, cur, g, diffEdgeSet, i) ==
    IF i > Len(g[cur.node]) THEN st
    ELSE LET n == g[cur.node][i]
         IN expand(markReached(st, n, cur.hasDiff \/ <<cur.node, n>> \in diffEdgeSet),
                   cur, g, diffEdgeSet, i + 1)

\* the queue loop
RECURSIVE drainQueue(_, _, _, _)
drainQueue(st, dst, g, diffEdgeSet) ==
    IF Len(st.queue) = 0 THEN FALSE
    ELSE LET cur == st.queue[1]
         IN IF cur.node = dst /\ cur.hasDiff THEN TRUE
            ELSE drainQueue(expand([st EXCEPT !.queue = Tail(@)], cur, g, diffEdgeSet, 1),
                            dst, g, diffEdgeSet)

reachableViaDiffPath(src, dst, g, diffEdgeSet) ==
    drainQueue(seedQueue([reachedWithDiff |-> {}, reachedNoDiff |-> {}, queue |-> <<>>],
                         src, dst, g, diffEdgeSet, 1),
               dst, g, diffEdgeSet)

transitiveReduceEdges(edges, fullGraph, nodes) ==
    LET subGraph == subGraphOf(fullGraph, nodes)
        diffEdgeSet == Range(edges)
        kept(e) == ~reachableViaDiffPath(e[1], e[2], subGraph, diffEdgeSet)
    IN SelectSeq(edges, kept)

\* ---------------------------------------------------------------------
\* Operations
\* ---------------------------------------------------------------------
\* one more edge in the graph under analysis; adjacency lists are kept
\* free of duplicates and in insertion order
AddEdge(u, v) ==
    /\ op = "build"
    /\ NumEdges(graph) < budget
    /\ ~contains(graph[u], v)
    /\ graph' = [graph EXCEPT ![u] = Append(@, v)]
    /\ UNCHANGED <<budget, op, cycVars, chainVars, pathVars, genVars, diffVars, snapVars, vcVars, gitVars, vanVars>>

RunCycles(k) ==
    /\ op = "build"
    /\ op' = "cycles"
    /\ maxLength' = k
    /\ \E cf \in {runCyclesFinder(graph, k)} :
          /\ cycles' = cf.cycles
          /\ finderRun' = [orderFree |-> cf.orderFree, fanout |-> cf.fanout,
                           peak |-> cf.peak]
    /\ UNCHANGED <<graph, budget, chainVars, pathVars, genVars, diffVars, snapVars, vcVars, gitVars, vanVars>>

RunLongestChain(start) ==
    /\ op = "build"
    /\ op' = "chain"
    /\ chainStart' = start
    /\ LET r == getLongestChain(start, graph, <<>>, <<>>)
       IN /\ chain' = r.chain
          /\ longestChains' = r.longestChains
    /\ UNCHANGED <<graph, budget, frames, cycVars, pathVars, genVars, diffVars, snapVars, vcVars, gitVars, vanVars>>

\* --- getLongestChain, one activation step at a time ---
\* a frame is an activation past line 121: its currentDep, the position of
\* its loop over deps and its longestDepChain so far

\* faulty variant: currentChain is never extended (line 121 missing)
activeChainLost(fr) == <<>>

\* currentChain as the innermost activation sees it: every activation
\* appended its own currentDep (line 121)
activeChain(fr) == [k \in 1..Len(fr) |-> fr[k].dep]

\* a call for d that returns before line 121: memo hit, no deps, or d on
\* the active chain
returnsAtOnce(d, memo, fr) ==
    \/ d \in DOMAIN memo
    \/ Len(graph[d]) = 0
    \/ contains(activeChain(fr), d)

\* what such a call returns and how it leaves the memo
immediate(d, memo, fr) ==
    IF d \in DOMAIN memo THEN [chain |-> memo[d], longestChains |-> memo]
    ELSE IF Len(graph[d]) = 0
    THEN [chain |-> <<d>>, longestChains |-> (d :> <<d>>) @@ memo]
    ELSE [chain |-> <<>>, longestChains |-> memo]

\* the caller's loop body after the call returned depChain (lines 125-128)
deliver(fr, depChain) ==
    [fr EXCEPT ![Len(fr)] =
        [@ EXCEPT !.i = @ + 1,
                  !.best = IF Len(depChain) > Len(@) THEN depChain ELSE @]]

\* a call returns r to the activations fr below it; with none left the
\* top-level call has returned
Return(r, fr) ==
    /\ longestChains' = r.longestChains
    /\ IF fr = <<>>
       THEN /\ op' = "chain"
            /\ chain' = r.chain
            /\ frames' = <<>>
       ELSE /\ op' = "running"
            /\ frames' = deliver(fr, r.chain)
            /\ UNCHANGED chain

\* getLongestChain(d, graph, activeChain(fr), memo) is called
Invoke(d, memo, fr) ==
    IF returnsAtOnce(d, memo, fr) THEN Return(immediate(d, memo, fr), fr)
    ELSE IF Len(fr) >= MaxDepth
    THEN /\ op' = "overflow"
         /\ frames' = fr
         /\ longestChains' = memo
         /\ UNCHANGED chain
    ELSE /\ op' = "running"
         /\ frames' = Append(fr, [dep |-> d, i |-> 1, best |-> <<>>])
         /\ longestChains' = memo
         /\ UNCHANGED chain

\* the top-level call of the stats command, with a nil chain and a fresh memo
CallLongestChain(start) ==
    /\ op = "build"
    /\ chainStart' = start
    /\ Invoke(start, <<>>, <<>>)
    /\ UNCHANGED <<graph, budget, cycVars, pathVars, genVars, diffVars, snapVars, vcVars, gitVars, vanVars>>

\* the innermost activation takes the next turn of its loop, or leaves it,
\* persists its chain and returns (lines 130-132)
StepLongestChain ==
    /\ op = "running"
    /\ LET f == frames[Len(frames)]
           own == <<f.dep>> \o f.best
       IN IF f.i > Len(graph[f.dep])
          THEN Return([chain |-> own, longestChains |-> (f.dep :> own) @@ longestChains],
                      SubSeq(frames, 1, Len(frames) - 1))
          ELSE Invoke(graph[f.dep][f.i], longestChains, frames)
    /\ UNCHANGED <<graph, budget, chainStart, cycVars, pathVars, genVars, diffVars, snapVars, vcVars, gitVars, vanVars>>

\* findAllPaths is called with an empty path, an empty visited map and an
\* empty output list
RunFindAllPaths(start, target, n) ==
    /\ op = "build"
    /\ op' = "paths"
    /\ pathStart' = start
    /\ pathTarget' = target
    /\ maxPaths' = n
    /\ \E r \in {findAllPaths(start, target, graph, <<>>, NoPaths, n)} :
          /\ paths' = r.out
          /\ lateCalls' = r.late
    /\ UNCHANGED <<graph, budget, cycVars, chainVars, genVars, diffVars, snapVars, vcVars, gitVars, vanVars>>

\* one more line at the end of the text handed to generateGraph
AddLine(l) ==
    /\ op = "build"
    /\ Len(lines) < MaxLines
    /\ lines' = Append(lines, l)
    /\ UNCHANGED <<graph, budget, op, cycVars, chainVars, pathVars, mainModules, depGraph, stats, diffVars, snapVars, vcVars, gitVars, vanVars>>

\* the text of Test_generateGraph_overridden_versions as the whole input
LoadOverriddenVersions ==
    /\ op = "build"
    /\ lines = <<>>
    /\ lines' = OverriddenVersions
    /\ UNCHANGED <<graph, budget, op, cycVars, chainVars, pathVars, mainModules, depGraph, stats, diffVars, snapVars, vcVars, gitVars, vanVars>>

RunGenerateGraph(mm) ==
    /\ op = "build"
    /\ op' = "generate"
    /\ mainModules' = mm
    /\ depGraph' = generateGraph(lines, mm)
    /\ UNCHANGED <<graph, budget, cycVars, chainVars, pathVars, lines, stats, diffVars, snapVars, vcVars, gitVars, vanVars>>

\* a Go map read as the algorithms read it: an absent key gives nil
asGraph(G) ==
    [n \in DOMAIN G \cup UNION {Range(G[a]) : a \in DOMAIN G} \cup Ids |-> Get(G, n, <<>>)]

RECURSIVE getAllDeps(_, _)
\* the entries of both lists, each once, in order of first appearance
getAllDeps(directDeps, transDeps) ==
    IF Len(transDeps) = 0 THEN directDeps
    ELSE getAllDeps(IF contains(directDeps, transDeps[1]) THEN directDeps
                    ELSE Append(directDeps, transDeps[1]),
                    Tail(transDeps))

\* no statistics: the command ended in a run-time panic
NoStats == [DirectDeps |-> 0, TransDeps |-> 0, TotalDeps |-> 0, MaxDepth |-> 0, panic |-> FALSE]

\* the four numbers both callers compute once they hold the longest chain
countsOf(d, longestChain) ==
    [DirectDeps |-> Len(d.DirectDepList), TransDeps |-> Len(d.TransDepList),
     TotalDeps |-> Len(getAllDeps(d.DirectDepList, d.TransDepList)),
     MaxDepth |-> Len(longestChain), panic |-> FALSE]

computeStats(d) ==
    countsOf(d, IF Len(d.MainModules) > 0
                THEN getLongestChain(d.MainModules[1], asGraph(d.Graph), <<>>, <<>>).chain
                ELSE <<>>)

\* the stats command reads MainModules[0] without a test of the length
statsCmd(d) ==
    IF Len(d.MainModules) = 0 THEN [NoStats EXCEPT !.panic = TRUE]
    ELSE countsOf(d, getLongestChain(d.MainModules[1], asGraph(d.Graph), <<>>, <<>>).chain)

\* diff: computeStats on the overview getDepInfo returned
RunComputeStats(mm) ==
    /\ op = "build"
    /\ op' = "computeStats"
    /\ mainModules' = mm
    /\ depGraph' = generateGraph(lines, mm)
    /\ stats' = computeStats(depGraph')
    /\ UNCHANGED <<graph, budget, cycVars, chainVars, pathVars, lines, diffVars, snapVars, vcVars, gitVars, vanVars>>

\* stats: the command on the overview getDepInfo returned
RunStatsCmd(mm) ==
    /\ op = "build"
    /\ op' = "statsCmd"
    /\ mainModules' = mm
    /\ depGraph' = generateGraph(lines, mm)
    /\ stats' = statsCmd(depGraph')
    /\ UNCHANGED <<graph, budget, cycVars, chainVars, pathVars, lines, diffVars, snapVars, vcVars, gitVars, vanVars>>

\* --- the diff of two snapshots ---
\* sort.Strings: insertion of x into the ascending list s
RECURSIVE insertSorted(_, _, _)
RECURSIVE sortStrings(_, _)

\* the order of the strings: identifiers, the Path of a VersionChange, or
\* "from -> to" held as pairs
strLeq(kind, x, y) ==
    IF kind = "id" THEN x <= y
    ELSE IF kind = "path" THEN x.Path <= y.Path
    ELSE x[1] < y[1] \/ (x[1] = y[1] /\ x[2] <= y[2])

insertSorted(s, x, kind) ==
    IF s = <<>> THEN <<x>>
    ELSE IF strLeq(kind, x, s[1]) THEN <<x>> \o s
    ELSE <<s[1]>> \o insertSorted(Tail(s), x, kind)

sortStrings(s, kind) ==
    IF s = <<>> THEN <<>>
    ELSE insertSorted(sortStrings(Tail(s), kind), s[1], kind)

\* the edges of a Graph map, one "from -> to" per adjacency entry, sorted
getEdges(G) ==
    SortEdges(UNION {{<<a, G[a][k]>> : k \in 1..Len(G[a])} : a \in DOMAIN G})

\* the items of b that are not in a, sorted
diffSlices(a, b, kind) ==
    LET notInA(x) == ~contains(a, x)
    IN sortStrings(SelectSeq(b, notInA), kind)

filterDepsByTestStatus(deps, testOnlySet, wantTestOnly) ==
    LET keep(dep) == wantTestOnly = (dep \in testOnlySet)
    IN SelectSeq(deps, keep)

\* an edge is test-only when either endpoint is
filterEdgesByTestStatus(edges, testOnlySet, wantTestOnly) ==
    LET keep(e) == wantTestOnly = (e[1] \in testOnlySet \/ e[2] \in testOnlySet)
    IN SelectSeq(edges, keep)

\* a DiffResult with nothing in it
NoDiff == [Added |-> <<>>, Removed |-> <<>>, EdgesAdded |-> <<>>, EdgesRemoved |-> <<>>]

\* Added, Removed, EdgesAdded and EdgesRemoved before the filter
unfilteredDiff(baseDepGraph, headDepGraph) ==
    LET baseDeps == getAllDeps(baseDepGraph.DirectDepList, baseDepGraph.TransDepList)
        headDeps == getAllDeps(headDepGraph.DirectDepList, headDepGraph.TransDepList)
        baseEdges == getEdges(baseDepGraph.Graph)
        headEdges == getEdges(headDepGraph.Graph)
    IN [Added |-> diffSlices(baseDeps, headDeps, "id"),
        Removed |-> diffSlices(headDeps, baseDeps, "id"),
        EdgesAdded |-> diffSlices(baseEdges, headEdges, "edge"),
        EdgesRemoved |-> diffSlices(headEdges, baseEdges, "edge")]

\* faulty variant: the removed items are filtered by the head ref's
\* classification
runDiffHeadFilter(baseText, headText, mm, flt, baseSet, headSet) ==
    LET result == unfilteredDiff(generateGraph(baseText, mm), generateGraph(headText, mm))
        testOnly == flt = "test-only"
    IN IF flt = "" THEN result
       ELSE [Added |-> filterDepsByTestStatus(result.Added, headSet, testOnly),
             Removed |-> filterDepsByTestStatus(result.Removed, headSet, testOnly),
             EdgesAdded |-> filterEdgesByTestStatus(result.EdgesAdded, headSet, testOnly),
             EdgesRemoved |-> filterEdgesByTestStatus(result.EdgesRemoved, headSet, testOnly)]

\* the four lists of runDiff's DiffResult for the texts "go mod graph"
\* prints at the two refs
runDiff(baseText, headText, mm, flt, baseSet, headSet) ==
    LET result == unfilteredDiff(generateGraph(baseText, mm), generateGraph(headText, mm))
        testOnly == flt = "test-only"
    IN IF flt = "" THEN result
       ELSE [Added |-> filterDepsByTestStatus(result.Added, headSet, testOnly),
             Removed |-> filterDepsByTestStatus(result.Removed, baseSet, testOnly),
             EdgesAdded |-> filterEdgesByTestStatus(result.EdgesAdded, headSet, testOnly),
             EdgesRemoved |-> filterEdgesByTestStatus(result.EdgesRemoved, baseSet, testOnly)]

\* the fields of a DependencyOverview that computeVersionChanges reads
NoVersionedOverview == [DirectDepList |-> <<>>, TransDepList |-> <<>>, Versions |-> <<>>]

\* the loop over the base dependencies from position i
RECURSIVE versionChangesFrom(_, _, _, _, _)
versionChangesFrom(deps, headDeps, base, head, i) ==
    IF i > Len(deps) THEN <<>>
    ELSE LET dep == deps[i]
             baseVer == Get(base.Versions, dep, NoVersion)
             headVer == Get(head.Versions, dep, NoVersion)
             rest == versionChangesFrom(deps, headDeps, base, head, i + 1)
         IN IF dep \notin headDeps THEN rest
            ELSE IF baseVer # NoVersion /\ headVer # NoVersion /\ baseVer # headVer
            THEN <<[Path |-> dep, Before |-> baseVer, After |-> headVer]>> \o rest
            ELSE rest

\* faulty variant: a module that is no dependency at head is not skipped
computeVersionChangesKeepRemoved(base, head) ==
    LET deps == getAllDeps(base.DirectDepList, base.TransDepList)
    IN sortStrings(versionChangesFrom(deps, Range(deps), base, head, 1), "path")

computeVersionChanges(base, head) ==
    LET headDeps == Range(getAllDeps(head.DirectDepList, head.TransDepList))
    IN sortStrings(versionChangesFrom(getAllDeps(base.DirectDepList, base.TransDepList),
                                      headDeps, base, head, 1),
                   "path")

\* runDiff: getDepInfo at the base ref
AnalyzeBase(base) ==
    /\ op = "build"
    /\ op' = "base"
    /\ vcBase' = base
    /\ UNCHANGED <<graph, budget, cycVars, chainVars, pathVars, genVars, diffVars, snapVars,
                   vcHead, versionChanges, gitVars, vanVars>>

\* runDiff: getDepInfo at the head ref
AnalyzeHead(head) ==
    /\ op = "base"
    /\ op' = "head"
    /\ vcHead' = head
    /\ UNCHANGED <<graph, budget, cycVars, chainVars, pathVars, genVars, diffVars, snapVars,
                   vcBase, versionChanges, gitVars, vanVars>>

\* runDiff: the VersionChanges field of the result
RunComputeVersionChanges ==
    /\ op = "head"
    /\ op' = "versionChanges"
    /\ versionChanges' = computeVersionChanges(vcBase, vcHead)
    /\ UNCHANGED <<graph, budget, cycVars, chainVars, pathVars, genVars, diffVars, snapVars,
                   vcBase, vcHead, gitVars, vanVars>>

\* one more line at the end of the text of the head ref
AddHeadLine(l) ==
    /\ op = "build"
    /\ Len(headLines) < MaxSnapshotLines
    /\ headLines' = Append(headLines, l)
    /\ UNCHANGED <<graph, budget, op, cycVars, chainVars, pathVars, genVars, diffVars,
                   filter, baseTestOnly, headTestOnly, diffResult, diffSwapped, vcVars, gitVars, vanVars>>

\* the diff command run from base to head, and run again with the two
\* refs exchanged; classifyTestDeps marks dependencies of the ref only
RunDiffBothWays(mm, flt, baseSet, headSet) ==
    /\ op = "build"
    /\ op' = "diff"
    /\ mainModules' = mm
    /\ filter' = flt
    /\ baseTestOnly' = baseSet
    /\ headTestOnly' = headSet
    /\ diffResult' = runDiff(lines, headLines, mm, flt, baseSet, headSet)
    /\ diffSwapped' = runDiff(headLines, lines, mm, flt, headSet, baseSet)
    /\ UNCHANGED <<graph, budget, cycVars, chainVars, pathVars, lines, depGraph, stats,
                   diffVars, headLines, vcVars, gitVars, vanVars>>

\* the diff edges are edges of the graph, in sorted order; the diff nodes
\* are their endpoints and the other nodes of the diff
RunReduce(D, extra) ==
    /\ op = "build"
    /\ D # {}
    /\ D \subseteq EdgesOf(graph)
    /\ op' = "reduce"
    /\ diffEdges' = SortEdges(D)
    /\ diffNodes' = Endpoints(D) \cup extra
    /\ reduced' = transitiveReduceEdges(diffEdges', graph, diffNodes')
    /\ UNCHANGED <<graph, budget, cycVars, chainVars, pathVars, genVars, snapVars, vcVars, gitVars, vanVars>>

\* ---------------------------------------------------------------------
\* Diff command: the steps of runDiff on the working tree
\* ---------------------------------------------------------------------
\* what can be checked out: the branch "main" and the commits "c1", "c2"
Refs == {"main", "c1", "c2"}

\* what git rev-parse answers: a commit
Commits == {"c1", "c2"}

\* one entry of gitLog
Event(kind, what, tree, ok) == [kind |-> kind, what |-> what, tree |-> tree, ok |-> ok]

\* faulty variant: the base classification is run after the head checkout
nextPcClassifyLate(at, need) ==
    CASE at = "checkoutBase" -> "graphBase"
      [] at = "graphBase" -> "checkoutHead"
      [] at = "checkoutHead" -> IF need THEN "classifyBase" ELSE "graphHead"
      [] at = "classifyBase" -> "graphHead"
      [] at = "graphHead" -> IF need THEN "classifyHead" ELSE "output"
      [] at = "classifyHead" -> "output"

\* the statement runDiff goes on with after the one at `at` succeeded
nextPc(at, need) ==
    CASE at = "checkoutBase" -> "graphBase"
      [] at = "graphBase" -> IF need THEN "classifyBase" ELSE "checkoutHead"
      [] at = "classifyBase" -> "checkoutHead"
      [] at = "checkoutHead" -> "graphHead"
      [] at = "graphHead" -> IF need THEN "classifyHead" ELSE "output"
      [] at = "classifyHead" -> "output"

\* "base" or "head": the snapshot the statement at `at` works on
sideOf(at) == IF at \in {"checkoutBase", "graphBase", "classifyBase"} THEN "base" ELSE "head"

\* the user's repository before the command runs
UserCheckout(r) ==
    /\ op = "build"
    /\ pc = "idle"
    /\ repoHead # r
    /\ repoHead' = r
    /\ UNCHANGED <<graph, budget, op, cycVars, chainVars, pathVars, genVars, diffVars,
                   snapVars, vcVars, vanVars, pc, dirty, originalRef, baseSHA, headSHA,
                   needClassification, deferred, gitLog, exit>>

UserEdit ==
    /\ op = "build"
    /\ pc = "idle"
    /\ dirty' = ~dirty
    /\ UNCHANGED <<graph, budget, op, cycVars, chainVars, pathVars, genVars, diffVars,
                   snapVars, vcVars, vanVars, pc, repoHead, originalRef, baseSHA, headSHA,
                   needClassification, deferred, gitLog, exit>>

\* runDiff is entered; need is diffSplitTestOnly || testOnly || nonTestOnly
StartDiff(need) ==
    /\ op = "build"
    /\ pc = "idle"
    /\ op' = "diff"
    /\ pc' = "currentRef"
    /\ needClassification' = need
    /\ UNCHANGED <<graph, budget, cycVars, chainVars, pathVars, genVars, diffVars,
                   snapVars, vcVars, vanVars, repoHead, dirty, originalRef, baseSHA, headSHA,
                   deferred, gitLog, exit>>

\* "return fmt.Errorf(...)": the deferred functions run next
ReturnError ==
    /\ pc' = "return"
    /\ exit' = "error"

\* originalRef, err := gitCurrentRefState()
GitCurrentRefState(ok) ==
    /\ pc = "currentRef"
    /\ IF ok THEN /\ originalRef' = repoHead
                  /\ pc' = "dirty"
                  /\ UNCHANGED exit
             ELSE /\ ReturnError
                  /\ UNCHANGED originalRef
    /\ UNCHANGED <<graph, budget, op, cycVars, chainVars, pathVars, genVars, diffVars,
                   snapVars, vcVars, vanVars, repoHead, dirty, baseSHA, headSHA,
                   needClassification, deferred, gitLog>>

\* dirty, err := gitWorkingTreeDirty()
GitWorkingTreeDirty(ok) ==
    /\ pc = "dirty"
    /\ IF ok THEN /\ pc' = IF dirty THEN "stash" ELSE "resolveBase"
                  /\ UNCHANGED exit
             ELSE ReturnError
    /\ UNCHANGED <<graph, budget, op, cycVars, chainVars, pathVars, genVars, diffVars,
                   snapVars, vcVars, vanVars, repoHead, dirty, originalRef, baseSHA, headSHA,
                   needClassification, deferred, gitLog>>

\* stashed, stashErr := gitStashPush(), and the deferred gitStashPop
GitStashPush(ok, stashed) ==
    /\ pc = "stash"
    /\ IF ok THEN /\ pc' = "resolveBase"
                  /\ dirty' = ~stashed
                  /\ deferred' = IF stashed THEN Append(deferred, "pop") ELSE deferred
                  /\ UNCHANGED exit
             ELSE /\ ReturnError
                  /\ UNCHANGED <<dirty, deferred>>
    /\ UNCHANGED <<graph, budget, op, cycVars, chainVars, pathVars, genVars, diffVars,
                   snapVars, vcVars, vanVars, repoHead, originalRef, baseSHA, headSHA,
                   needClassification, gitLog>>

\* baseSHA, err := gitResolveRef(baseRef)
GitResolveBase(ok, sha) ==
    /\ pc = "resolveBase"
    /\ IF ok THEN /\ baseSHA' = sha
                  /\ pc' = "resolveHead"
                  /\ UNCHANGED exit
             ELSE /\ ReturnError
                  /\ UNCHANGED baseSHA
    /\ UNCHANGED <<graph, budget, op, cycVars, chainVars, pathVars, genVars, diffVars,
                   snapVars, vcVars, vanVars, repoHead, dirty, originalRef, headSHA,
                   needClassification, deferred, gitLog>>

\* headSHA, err := gitResolveRef(headRef), and the deferred
\* gitCheckout(originalRef)
GitResolveHead(ok, sha) ==
    /\ pc = "resolveHead"
    /\ IF ok THEN /\ headSHA' = sha
                  /\ deferred' = Append(deferred, "restore")
                  /\ pc' = "checkoutBase"
                  /\ UNCHANGED exit
             ELSE /\ ReturnError
                  /\ UNCHANGED <<headSHA, deferred>>
    /\ UNCHANGED <<graph, budget, op, cycVars, chainVars, pathVars, genVars, diffVars,
                   snapVars, vcVars, vanVars, repoHead, dirty, originalRef, baseSHA,
                   needClassification, gitLog>>

\* gitCheckout(baseSHA) and gitCheckout(headSHA)
GitCheckout(ok) ==
    /\ pc \in {"checkoutBase", "checkoutHead"}
    /\ LET sha == IF pc = "checkoutBase" THEN baseSHA ELSE headSHA
       IN /\ repoHead' = IF ok THEN sha ELSE repoHead
          /\ gitLog' = Append(gitLog, Event("checkout", sideOf(pc), sha, ok))
    /\ IF ok THEN /\ pc' = nextPc(pc, needClassification)
                  /\ UNCHANGED exit
             ELSE ReturnError
    /\ UNCHANGED <<graph, budget, op, cycVars, chainVars, pathVars, genVars, diffVars,
                   snapVars, vcVars, vanVars, dirty, originalRef, baseSHA, headSHA,
                   needClassification, deferred>>

\* getDepInfo(mainModules) and the four lines after it: "go mod graph" runs
\* in the working tree as it is; when it fails log.Fatal ends the process
\* at once, and a line generateGraph cannot index panics
GetDepInfo(outcome) ==
    /\ pc \in {"graphBase", "graphHead"}
    /\ CASE outcome = "ok" ->
              /\ gitLog' = Append(gitLog, Event("graph", sideOf(pc), repoHead, TRUE))
              /\ pc' = nextPc(pc, needClassification)
              /\ UNCHANGED <<exit, op>>
         [] outcome = "fatal" ->
              /\ pc' = "done"
              /\ exit' = "fatal"
              /\ op' = "diffDone"
              /\ UNCHANGED gitLog
         [] outcome = "panic" ->
              /\ pc' = "return"
              /\ exit' = "panic"
              /\ UNCHANGED <<gitLog, op>>
    /\ UNCHANGED <<graph, budget, cycVars, chainVars, pathVars, genVars, diffVars,
                   snapVars, vcVars, vanVars, repoHead, dirty, originalRef, baseSHA, headSHA,
                   needClassification, deferred>>

\* baseTestOnly, err = classifyTestDeps(baseDeps), and the same for head
ClassifyTestDeps(ok) ==
    /\ pc \in {"classifyBase", "classifyHead"}
    /\ IF ok THEN /\ gitLog' = Append(gitLog, Event("classify", sideOf(pc), repoHead, TRUE))
                  /\ pc' = nextPc(pc, needClassification)
                  /\ UNCHANGED exit
             ELSE /\ ReturnError
                  /\ UNCHANGED gitLog
    /\ UNCHANGED <<graph, budget, op, cycVars, chainVars, pathVars, genVars, diffVars,
                   snapVars, vcVars, vanVars, repoHead, dirty, originalRef, baseSHA, headSHA,
                   needClassification, deferred>>

\* the diff is computed from the two overviews and written out
OutputDiff(ok) ==
    /\ pc = "output"
    /\ pc' = "return"
    /\ exit' = IF ok THEN "ok" ELSE "error"
    /\ UNCHANGED <<graph, budget, op, cycVars, chainVars, pathVars, genVars, diffVars,
                   snapVars, vcVars, vanVars, repoHead, dirty, originalRef, baseSHA, headSHA,
                   needClassification, deferred, gitLog>>

\* the deferred functions, last registered first; a failure is a warning
RunDeferred(ok) ==
    /\ pc = "return"
    /\ deferred # <<>>
    /\ deferred' = SubSeq(deferred, 1, Len(deferred) - 1)
    /\ IF deferred[Len(deferred)] = "restore"
       THEN /\ repoHead' = IF ok THEN originalRef ELSE repoHead
            /\ gitLog' = Append(gitLog, Event("checkout", "restore", originalRef, ok))
            /\ UNCHANGED dirty
       ELSE /\ dirty' = (ok \/ dirty)
            /\ UNCHANGED <<repoHead, gitLog>>
    /\ UNCHANGED <<graph, budget, op, cycVars, chainVars, pathVars, genVars, diffVars,
                   snapVars, vcVars, vanVars, pc, originalRef, baseSHA, headSHA,
                   needClassification, exit>>

\* runDiff has returned and its deferred functions have run
FinishDiff ==
    /\ pc = "return"
    /\ deferred = <<>>
    /\ pc' = "done"
    /\ op' = "diffDone"
    /\ UNCHANGED <<graph, budget, cycVars, chainVars, pathVars, genVars, diffVars,
                   snapVars, vcVars, vanVars, repoHead, dirty, originalRef, baseSHA, headSHA,
                   needClassification, deferred, gitLog, exit>>

\* ---------------------------------------------------------------------
\* Vanity URL resolution: one goroutine per module
\* ---------------------------------------------------------------------
\* what resolveOneVanityURL answers: "" or an owner/repo
NoRepo == ""
Repos == {"o/r", "o/s"}

\* the goroutines of one call, by the position of their module in mods
Goroutines == 1..Len(mods)

\* faulty variant: the mutex lets a goroutine in while another holds it
lockIsFreeAlways(holder) == TRUE

\* mu.Lock() goes through when no goroutine holds mu (holder 0)
lockIsFree(holder) == holder = 0

\* resolveVanityURLs is entered with the modules ms
StartResolve(ms) ==
    /\ op = "build"
    /\ vanityPc = "idle"
    /\ op' = "vanity"
    /\ vanityPc' = "loop"
    /\ mods' = ms
    /\ gpc' = [i \in 1..Len(ms) |-> "unborn"]
    /\ repoOf' = [i \in 1..Len(ms) |-> NoRepo]
    /\ sliceRead' = [i \in 1..Len(ms) |-> <<>>]
    /\ UNCHANGED <<graph, budget, cycVars, chainVars, pathVars, genVars, diffVars,
                   snapVars, vcVars, gitVars, spawned, mu, sem, wg, resolved, unresolved>>

\* one iteration of the loop over mods: wg.Add(1) and the go statement
Spawn ==
    /\ vanityPc = "loop"
    /\ spawned < Len(mods)
    /\ spawned' = spawned + 1
    /\ wg' = wg + 1
    /\ gpc' = [gpc EXCEPT ![spawned + 1] = "start"]
    /\ UNCHANGED <<graph, budget, op, cycVars, chainVars, pathVars, genVars, diffVars,
                   snapVars, vcVars, gitVars, mods, repoOf, sliceRead, mu, sem,
                   resolved, unresolved, vanityPc>>

\* sem <- struct{}{}: blocks while the channel holds SemCap elements
SemSend(i) ==
    /\ gpc[i] = "start"
    /\ sem < SemCap
    /\ sem' = sem + 1
    /\ gpc' = [gpc EXCEPT ![i] = "resolve"]
    /\ UNCHANGED <<graph, budget, op, cycVars, chainVars, pathVars, genVars, diffVars,
                   snapVars, vcVars, gitVars, mods, spawned, repoOf, sliceRead, mu, wg,
                   resolved, unresolved, vanityPc>>

\* repo := resolveOneVanityURL(client, m.Path)
Resolve(i, repo) ==
    /\ gpc[i] = "resolve"
    /\ repoOf' = [repoOf EXCEPT ![i] = repo]
    /\ gpc' = [gpc EXCEPT ![i] = "lock"]
    /\ UNCHANGED <<graph, budget, op, cycVars, chainVars, pathVars, genVars, diffVars,
                   snapVars, vcVars, gitVars, mods, spawned, sliceRead, mu, sem, wg,
                   resolved, unresolved, vanityPc>>

\* mu.Lock()
Lock(i) ==
    /\ gpc[i] = "lock"
    /\ lockIsFree(mu)
    /\ mu' = i
    /\ gpc' = [gpc EXCEPT ![i] = "read"]
    /\ UNCHANGED <<graph, budget, op, cycVars, chainVars, pathVars, genVars, diffVars,
                   snapVars, vcVars, gitVars, mods, spawned, repoOf, sliceRead, sem, wg,
                   resolved, unresolved, vanityPc>>

\* the slice an append starts from: resolved[repo] or unresolved
ReadSlice(i) ==
    /\ gpc[i] = "read"
    /\ sliceRead' = [sliceRead EXCEPT ![i] =
                        IF repoOf[i] # NoRepo THEN Get(resolved, repoOf[i], <<>>)
                        ELSE unresolved]
    /\ gpc' = [gpc EXCEPT ![i] = "write"]
    /\ UNCHANGED <<graph, budget, op, cycVars, chainVars, pathVars, genVars, diffVars,
                   snapVars, vcVars, gitVars, mods, spawned, repoOf, mu, sem, wg,
                   resolved, unresolved, vanityPc>>

\* the assignment of the appended slice
WriteSlice(i) ==
    /\ gpc[i] = "write"
    /\ IF repoOf[i] # NoRepo
       THEN /\ resolved' = Put(resolved, repoOf[i], Append(sliceRead[i], mods[i]))
            /\ UNCHANGED unresolved
       ELSE /\ unresolved' = Append(sliceRead[i], mods[i])
            /\ UNCHANGED resolved
    /\ gpc' = [gpc EXCEPT ![i] = "unlock"]
    /\ UNCHANGED <<graph, budget, op, cycVars, chainVars, pathVars, genVars, diffVars,
                   snapVars, vcVars, gitVars, mods, spawned, repoOf, sliceRead, mu, sem,
                   wg, vanityPc>>

\* the deferred mu.Unlock()
Unlock(i) ==
    /\ gpc[i] = "unlock"
    /\ mu' = 0
    /\ gpc' = [gpc EXCEPT ![i] = "release"]
    /\ UNCHANGED <<graph, budget, op, cycVars, chainVars, pathVars, genVars, diffVars,
                   snapVars, vcVars, gitVars, mods, spawned, repoOf, sliceRead, sem, wg,
                   resolved, unresolved, vanityPc>>

\* the deferred <-sem
SemReceive(i) ==
    /\ gpc[i] = "release"
    /\ sem' = sem - 1
    /\ gpc' = [gpc EXCEPT ![i] = "wgDone"]
    /\ UNCHANGED <<graph, budget, op, cycVars, chainVars, pathVars, genVars, diffVars,
                   snapVars, vcVars, gitVars, mods, spawned, repoOf, sliceRead, mu, wg,
                   resolved, unresolved, vanityPc>>

\* the deferred wg.Done(), after which the goroutine is over
Done(i) ==
    /\ gpc[i] = "wgDone"
    /\ wg' = wg - 1
    /\ gpc' = [gpc EXCEPT ![i] = "done"]
    /\ UNCHANGED <<graph, budget, op, cycVars, chainVars, pathVars, genVars, diffVars,
                   snapVars, vcVars, gitVars, mods, spawned, repoOf, sliceRead, mu, sem,
                   resolved, unresolved, vanityPc>>

\* wg.Wait() after the loop: goes through when the counter is 0
Wait ==
    /\ vanityPc = "loop"
    /\ spawned = Len(mods)
    /\ wg = 0
    /\ vanityPc' = "sort"
    /\ UNCHANGED <<graph, budget, op, cycVars, chainVars, pathVars, genVars, diffVars,
                   snapVars, vcVars, gitVars, mods, spawned, gpc, repoOf, sliceRead, mu,
                   sem, wg, resolved, unresolved>>

\* sort.Strings(unresolved) and the return
SortAndReturn ==
    /\ vanityPc = "sort"
    /\ unresolved' = sortStrings(unresolved, "id")
    /\ vanityPc' = "returned"
    /\ op' = "vanityDone"
    /\ UNCHANGED <<graph, budget, cycVars, chainVars, pathVars, genVars, diffVars,
                   snapVars, vcVars, gitVars, mods, spawned, gpc, repoOf, sliceRead, mu,
                   sem, wg, resolved>>

InitFrom(g, b) ==
    /\ graph = g
    /\ budget = b
    /\ op = "build"
    /\ maxLength = 0
    /\ cycles = <<>>
    /\ finderRun = NoFinderRun
    /\ chainStart = 0
    /\ chain = <<>>
    /\ longestChains = <<>>
    /\ frames = <<>>
    /\ pathStart = 0
    /\ pathTarget = 0
    /\ maxPaths = 0
    /\ paths = <<>>
    /\ lateCalls = 0
    /\ lines = <<>>
    /\ mainModules = <<>>
    /\ depGraph = NoOverview
    /\ stats = NoStats
    /\ diffEdges = <<>>
    /\ diffNodes = {}
    /\ reduced = <<>>
    /\ headLines = <<>>
    /\ filter = ""
    /\ baseTestOnly = {}
    /\ headTestOnly = {}
    /\ diffResult = NoDiff
    /\ diffSwapped = NoDiff
    /\ vcBase = NoVersionedOverview
    /\ vcHead = NoVersionedOverview
    /\ versionChanges = <<>>
    /\ pc = "idle"
    /\ repoHead = "main"
    /\ dirty = FALSE
    /\ originalRef = ""
    /\ baseSHA = ""
    /\ headSHA = ""
    /\ needClassification = FALSE
    /\ deferred = <<>>
    /\ gitLog = <<>>
    /\ exit = ""
    /\ mods = <<>>
    /\ spawned = 0
    /\ gpc = <<>>
    /\ repoOf = <<>>
    /\ sliceRead = <<>>
    /\ mu = 0
    /\ sem = 0
    /\ wg = 0
    /\ resolved = <<>>
    /\ unresolved = <<>>
    /\ vanityPc = "idle"

InitWith(b) == InitFrom(EmptyGraph, b)

Init == InitWith(MaxEdges)

InitDeep == InitWith(MaxEdgesDeep)

NextCycles ==
    \/ \E u, v \in Ids : AddEdge(u, v)
    \/ \E k \in 0..MaxCap : RunCycles(k)

SpecCycles == Init /\ [][NextCycles]_vars

\* a graph that already holds the two-node cycle 1 -> 2 -> 1
SeedGraph == [n \in Ids |-> IF n = 1 THEN <<2>> ELSE IF n = 2 THEN <<1>> ELSE <<>>]

InitSeeded == InitFrom(SeedGraph, MaxEdgesSeeded)

SpecMapOrder == InitSeeded /\ [][NextCycles]_vars

NextRunDiff ==
    \/ \E r \in Refs : UserCheckout(r)
    \/ UserEdit
    \/ \E need \in BOOLEAN : StartDiff(need)
    \/ \E ok \in BOOLEAN : GitCurrentRefState(ok)
    \/ \E ok \in BOOLEAN : GitWorkingTreeDirty(ok)
    \/ \E ok, stashed \in BOOLEAN : GitStashPush(ok, stashed)
    \/ \E ok \in BOOLEAN, sha \in Commits : GitResolveBase(ok, sha)
    \/ \E ok \in BOOLEAN, sha \in Commits : GitResolveHead(ok, sha)
    \/ \E ok \in BOOLEAN : GitCheckout(ok)
    \/ \E outcome \in {"ok", "fatal", "panic"} : GetDepInfo(outcome)
    \/ \E ok \in BOOLEAN : ClassifyTestDeps(ok)
    \/ \E ok \in BOOLEAN : OutputDiff(ok)
    \/ \E ok \in BOOLEAN : RunDeferred(ok)
    \/ FinishDiff

SpecRunDiff == Init /\ [][NextRunDiff]_vars

\* the module lists handed in: the paths 1..n
ModuleLists == {[i \in 1..n |-> i] : n \in 0..MaxMods}

NextVanity ==
    \/ \E ms \in ModuleLists : StartResolve(ms)
    \/ Spawn
    \/ \E i \in Goroutines : SemSend(i)
    \/ \E i \in Goroutines, repo \in Repos \cup {NoRepo} : Resolve(i, repo)
    \/ \E i \in Goroutines : Lock(i)
    \/ \E i \in Goroutines : ReadSlice(i)
    \/ \E i \in Goroutines : WriteSlice(i)
    \/ \E i \in Goroutines : Unlock(i)
    \/ \E i \in Goroutines : SemReceive(i)
    \/ \E i \in Goroutines : Done(i)
    \/ Wait
    \/ SortAndReturn

SpecVanity == Init /\ [][NextVanity]_vars

NextChain ==
    \/ \E u, v \in Ids : AddEdge(u, v)
    \/ \E start \in Ids : RunLongestChain(start)

SpecChain == Init /\ [][NextChain]_vars

NextChainSteps ==
    \/ \E u, v \in Ids : AddEdge(u, v)
    \/ \E start \in Ids : CallLongestChain(start)
    \/ StepLongestChain

\* an activation that can take a step takes it: the recursion is ordinary
\* sequential code
SpecChainSteps == Init /\ [][NextChainSteps]_vars /\ WF_vars(StepLongestChain)

\* findAllPaths only tests identifiers for equality, so every call is a
\* renaming of a call that starts at the first identifier
PathStarts == {1}

NextPaths ==
    \/ \E u, v \in Ids : AddEdge(u, v)
    \/ \E start \in PathStarts, target \in Ids, n \in 0..MaxPaths :
          RunFindAllPaths(start, target, n)

SpecPaths == Init /\ [][NextPaths]_vars

\* caps as a caller may hand them to the core functions unchecked: the why
\* command passes --max-paths on as given
UncheckedCaps == {-1, 0, 1}

NextCaps ==
    \/ \E u, v \in Ids : AddEdge(u, v)
    \/ \E k \in UncheckedCaps : RunCycles(k)
    \/ \E target \in Ids, n \in UncheckedCaps : RunFindAllPaths(1, target, n)

SpecCaps == Init /\ [][NextCaps]_vars

NextGraph ==
    \/ \E l \in Lines : AddLine(l)
    \/ LoadOverriddenVersions
    \/ \E mm \in MainModuleLists : RunGenerateGraph(mm)

SpecGraph == Init /\ [][NextGraph]_vars

\* getDepInfo hands generateGraph the --mainModules list, or the module
\* "go list -m" names, or nothing when that command fails
NextStats ==
    \/ \E l \in Lines : AddLine(l)
    \/ \E mm \in {<<>>, <<1>>, <<2>>} : RunComputeStats(mm)
    \/ \E mm \in {<<>>, <<1>>, <<2>>} : RunStatsCmd(mm)

SpecStats == Init /\ [][NextStats]_vars

NextVersions ==
    \/ \E l \in VersionLines : AddLine(l)
    \/ \E mm \in {<<>>, <<1>>} : RunGenerateGraph(mm)

SpecVersions == Init /\ [][NextVersions]_vars

NextMalformed ==
    \/ \E l \in Lines \cup MalformedLines : AddLine(l)
    \/ \E mm \in {<<>>, <<2>>} : RunGenerateGraph(mm)

SpecMalformed == Init /\ [][NextMalformed]_vars

\* the lines of the snapshots: A B@v1, A C@v1, B@v1 C@v1
SnapshotLines ==
    { <<<<1, NoVersion>>, <<2, V1>>>>, <<<<1, NoVersion>>, <<3, V1>>>>,
      <<<<2, V1>>, <<3, V1>>>> }

\* the dependencies of a text, which classifyTestDeps is handed
DepsOfText(text, mm) ==
    LET d == generateGraph(text, mm)
    IN Range(getAllDeps(d.DirectDepList, d.TransDepList))

NextSnapshots ==
    \/ \E l \in SnapshotLines : Len(lines) < MaxSnapshotLines /\ AddLine(l)
    \/ \E l \in SnapshotLines : AddHeadLine(l)
    \/ \E mm \in {<<>>, <<1>>}, flt \in {"", "test-only", "non-test-only"} :
          \E baseSet \in SUBSET (DepsOfText(lines, mm) \cap {3}),
             headSet \in SUBSET (DepsOfText(headLines, mm) \cap {3}) :
             RunDiffBothWays(mm, flt, baseSet, headSet)

SpecSnapshots == Init /\ [][NextSnapshots]_vars

\* overviews of the main module A: dependency lists over B, C and D, and
\* a version (or none) recorded for each of them
VersionedOverviews ==
    [DirectDepList : {<<>>, <<2>>, <<3, 2>>},
     TransDepList : {<<>>, <<3>>, <<4>>},
     Versions : [{2, 3, 4} -> {NoVersion, V1, V2}]]

NextVersionChanges ==
    \/ \E base \in VersionedOverviews : AnalyzeBase(base)
    \/ \E head \in VersionedOverviews : AnalyzeHead(head)
    \/ RunComputeVersionChanges

SpecVersionChanges == Init /\ [][NextVersionChanges]_vars

InitDiff == InitWith(MaxEdgesDiff)

NextDiff ==
    \/ \E u, v \in Ids : AddEdge(u, v)
    \/ \E D \in SUBSET EdgesOf(graph) :
          \E extra \in SUBSET (Ids \ Endpoints(D)) : RunReduce(D, extra)

SpecDiff == InitDiff /\ [][NextDiff]_vars

NextDeep ==
    \/ \E u, v \in Ids : AddEdge(u, v)
    \/ \E k \in 1..MaxCap : RunCycles(k)
    \/ \E start \in Ids : RunLongestChain(start)

SpecDeep == InitDeep /\ [][NextDeep]_vars

\* ---------------------------------------------------------------------
\* Reference notions on graphs
\* ---------------------------------------------------------------------
HasEdge(g, u, v) == contains(g[u], v)

\* p follows edges of g
IsWalkIn(g, p) == \A i \in 1..(Len(p) - 1) : HasEdge(g, p[i], p[i + 1])

\* all non-empty sequences of pairwise distinct identifiers
SimpleSeqs ==
    {q \in UNION {[1..n -> Ids] : n \in 1..Cardinality(Ids)} : IsDupFree(q)}

Front(c) == SubSeq(c, 1, Len(c) - 1)

\* the elementary cycles of g that extend the simple path p and close at
\* p[1], through nodes above p[1] only
RECURSIVE CyclesThrough(_, _)
CyclesThrough(g, p) ==
    LET last == p[Len(p)]
    IN (IF HasEdge(g, last, p[1]) THEN {Append(p, p[1])} ELSE {})
       \cup UNION {CyclesThrough(g, Append(p, n)) :
                     n \in {m \in Range(g[last]) : m > p[1] /\ m \notin Range(p)}}

\* the elementary cycles of g, each written once, from its lowest member
ElementaryCycles(g) == UNION {CyclesThrough(g, <<s>>) : s \in Ids}

IsRotation(a, b) ==
    /\ Len(a) = Len(b)
    /\ Len(a) > 0
    /\ \E r \in 0..(Len(a) - 1) : \A i \in 1..Len(a) : b[i] = a[((i - 1 + r) % Len(a)) + 1]

\* ---------------------------------------------------------------------
\* Cycle finder properties
\* ---------------------------------------------------------------------
\* C2: for a cap k > 0 the result holds exactly the cycles of the uncapped
\* search that have at most k edges (none longer, none missing).
C2_CapExact ==
    (op = "cycles" /\ maxLength > 0) =>
        Range(cycles) = {c \in Range(findAllCycles(graph)) : Len(c) - 1 <= maxLength}

\* C3: with maxLength = 0 every elementary cycle of the graph is in the
\* result, a self-loop on s as <<s, s>>.
C3_AllCyclesFound ==
    (op = "cycles" /\ maxLength = 0) => ElementaryCycles(graph) \subseteq Range(cycles)

C3_Witness ==
    /\ op = "cycles"
    /\ maxLength = 0
    /\ \E i, j \in 1..Len(cycles) : Len(cycles[i]) = 2 /\ Len(cycles[j]) >= 4

\* C4: every returned chain is a closed walk along graph edges, first element
\* equal to last, other nodes pairwise distinct, starting at its lowest
\* member, and no two returned chains are rotations of the same cycle.
C4_CycleValidity ==
    op = "cycles" =>
        /\ \A i \in 1..Len(cycles) :
              LET c == cycles[i]
              IN /\ Len(c) >= 2
                 /\ c[1] = c[Len(c)]
                 /\ IsWalkIn(graph, c)
                 /\ IsDupFree(Front(c))
                 /\ \A j \in 1..Len(c) : c[1] <= c[j]
        /\ \A i, j \in 1..Len(cycles) :
              i # j => ~IsRotation(Front(cycles[i]), Front(cycles[j]))

C4_Witness ==
    /\ op = "cycles"
    /\ \E i, j \in 1..Len(cycles) :
          /\ Len(cycles[i]) >= 4
          /\ cycles[j][1] # cycles[i][1]
          /\ Range(cycles[i]) \cap Range(cycles[j]) # {}

\* ---------------------------------------------------------------------
\* Longest chain properties
\* ---------------------------------------------------------------------
\* number of nodes of the longest simple path of g that extends the simple
\* path p
RECURSIVE LongestFrom(_, _)
LongestFrom(g, p) ==
    LET ext == {n \in Range(g[p[Len(p)]]) : n \notin Range(p)}
        RECURSIVE MaxOver(_)
        MaxOver(S) == IF S = {} THEN Len(p)
                      ELSE LET n == CHOOSE x \in S : TRUE
                               a == LongestFrom(g, Append(p, n))
                               b == MaxOver(S \ {n})
                           IN IF a > b THEN a ELSE b
    IN MaxOver(ext)

\* C1: the chain returned for start is a simple path of the graph beginning
\* at start, and no simple path beginning at start has more nodes.
C1_LongestSimplePath ==
    op = "chain" =>
        /\ Len(chain) >= 1
        /\ chain[1] = chainStart
        /\ IsWalkIn(graph, chain)
        /\ IsDupFree(chain)
        /\ Len(chain) >= LongestFrom(graph, <<chainStart>>)

\* C12: the chain returned for start repeats no node, and neither does any
\* chain recorded in the memo map (entries are written once and never
\* removed, so the map left by the call holds every chain ever stored).
C12_NoRepeatedNode ==
    op = "chain" =>
        /\ IsDupFree(chain)
        /\ \A n \in DOMAIN longestChains : IsDupFree(longestChains[n])

C12_Witness ==
    /\ op = "chain"
    /\ Len(chain) >= 3
    /\ HasEdge(graph, chain[Len(chain)], chainStart)
    /\ Cardinality(DOMAIN longestChains) >= 3

\* the graphs that differ from g in the order of the adjacency lists only
Perms(s) == {t \in [1..Len(s) -> Range(s)] : Range(t) = Range(s)}

RECURSIVE ReorderingsUpTo(_, _)
ReorderingsUpTo(g, k) ==
    IF k = 0 THEN {<<>>}
    ELSE {Append(h, t) : h \in ReorderingsUpTo(g, k - 1), t \in Perms(g[k])}

Reorderings(g) == ReorderingsUpTo(g, Len(g))

\* C20: for every reordering of the adjacency lists, the chain returned
\* for start has the same length, and so has the chain recorded for every
\* node both computations record.
C20_MemoIndependentOfOrder ==
    op = "chain" =>
        \A h \in Reorderings(graph) :
            LET r == getLongestChain(chainStart, h, <<>>, <<>>)
            IN /\ Len(r.chain) = Len(chain)
               /\ \A n \in DOMAIN r.longestChains \cap DOMAIN longestChains :
                     Len(r.longestChains[n]) = Len(longestChains[n])

\* the nodes whose loop over deps is being executed, outermost first
FrameDeps == [k \in 1..Len(frames) |-> frames[k].dep]

\* C13: every call of getLongestChain returns: the recursion never outgrows
\* the stack, no node is on the active chain twice, and a started call
\* ends with op = "chain".
C13_Terminates ==
    /\ [](op # "overflow")
    /\ [](IsDupFree(FrameDeps))
    /\ ((op = "running") ~> (op = "chain"))

\* a call on a graph with a cycle and a self-loop has returned, after the
\* recursion was three activations deep at some node of the cycle
C13_Witness ==
    /\ op = "chain"
    /\ \E n \in Ids : HasEdge(graph, n, n)
    /\ Len(chain) >= 3
    /\ HasEdge(graph, chain[3], chain[1])

\* the stepwise call leaves the chain and the memo of the recursive function
ChainStepsAgree ==
    op = "chain" =>
        LET r == getLongestChain(chainStart, graph, <<>>, <<>>)
        IN chain = r.chain /\ longestChains = r.longestChains

\* ---------------------------------------------------------------------
\* Path finder properties
\* ---------------------------------------------------------------------
\* what the unbounded search returns for the arguments of the last call
UnboundedPaths == findAllPaths(pathStart, pathTarget, graph, <<>>, NoPaths, 0).out

\* C10: for n > 0 the search returns at most n paths, and exactly n when
\* the unbounded search on the same arguments returns at least n.
C10_PathCap ==
    (op = "paths" /\ maxPaths > 0) =>
        /\ Len(paths) <= maxPaths
        /\ (Len(UnboundedPaths) >= maxPaths => Len(paths) = maxPaths)

C10_Witness ==
    /\ op = "paths"
    /\ maxPaths > 0
    /\ Len(UnboundedPaths) > maxPaths
    /\ Len(paths) = maxPaths

\* the simple paths of g from start to target
SimplePaths(g, start, target) ==
    {q \in SimpleSeqs : q[1] = start /\ q[Len(q)] = target /\ IsWalkIn(g, q)}

\* C11: with maxPaths = 0 the search returns every simple path from start
\* to target exactly once and nothing else; in particular target occurs in
\* a returned path only as its last element.
C11_AllSimplePaths ==
    (op = "paths" /\ maxPaths = 0) =>
        /\ IsDupFree(paths)
        /\ Range(paths) = SimplePaths(graph, pathStart, pathTarget)
        /\ \A i \in 1..Len(paths) :
              \A j \in 1..(Len(paths[i]) - 1) : paths[i][j] # pathTarget

C11_Witness ==
    /\ op = "paths"
    /\ maxPaths = 0
    /\ Len(paths) >= 2
    /\ \E i, j \in 1..Len(paths) :
          /\ Len(paths[i]) = 4
          /\ Len(paths[j]) = 3
          /\ paths[i][3] = paths[j][2]

\* C16: a cap of 0 is unbounded, and a call with a negative cap does not
\* return a result: it is rejected, never answered with the unbounded
\* result or with an empty one.
C16_NegativeCapRejected ==
    /\ (op = "cycles" /\ maxLength = 0) => ElementaryCycles(graph) \subseteq Range(cycles)
    /\ (op = "paths" /\ maxPaths = 0) =>
           Range(paths) = SimplePaths(graph, pathStart, pathTarget)
    /\ op = "cycles" => maxLength >= 0
    /\ op = "paths" => maxPaths >= 0

\* what the calls with a negative cap return
NegativeCapResults ==
    /\ (op = "cycles" /\ maxLength < 0) => cycles = <<>>
    /\ (op = "paths" /\ maxPaths < 0) =>
           Range(paths) = SimplePaths(graph, pathStart, pathTarget)

\* ---------------------------------------------------------------------
\* Graph builder properties
\* ---------------------------------------------------------------------
\* positions of the lines the scanner loop does not skip
Parsed == {i \in 1..Len(lines) : lines[i][1][1] \notin {GoName, ToolchainName}}

Lhs(i) == [name |-> lines[i][1][1], version |-> lines[i][1][2]]
Rhs(i) == [name |-> lines[i][2][1], version |-> lines[i][2][2]]

\* source identifier of the first parsed line (empty when there is none)
FirstSource == {Lhs(i).name : i \in {j \in Parsed : \A k \in Parsed : j <= k}}

\* identifiers the resolution starts from: the first source and every
\* listed main module that is the source of a line
RootNames ==
    FirstSource
    \cup {Lhs(i).name : i \in {j \in Parsed : contains(mainModules, Lhs(j).name)}}

\* the version recorded for an identifier
Eff(n) == Get(depGraph.effectiveVersions, n, NoVersion)

\* identifiers reachable from the roots along lines whose source carries
\* its effective version
RECURSIVE RawClosure(_)
RawClosure(S) ==
    LET T == S \cup {Rhs(i).name : i \in {j \in Parsed :
                        Lhs(j).name \in S /\ Lhs(j).version = Eff(Lhs(j).name)}}
    IN IF T = S THEN S ELSE RawClosure(T)

RawReachable == RawClosure(RootNames)

\* positions of the lines whose source is reachable at its effective version
EffectiveLines ==
    LET reach == RawReachable
    IN {i \in Parsed : Lhs(i).name \in reach /\ Lhs(i).version = Eff(Lhs(i).name)}

StaleLines == Parsed \ EffectiveLines

GraphEdges(g) == UNION {{<<a, g[a][k]>> : k \in 1..Len(g[a])} : a \in DOMAIN g}

GraphNodes(g) == DOMAIN g \cup UNION {Range(g[a]) : a \in DOMAIN g}

\* identifiers reachable from S along the edges of g
RECURSIVE ReachIn(_, _)
ReachIn(g, S) ==
    LET T == S \cup UNION {Range(g[a]) : a \in S \cap DOMAIN g}
    IN IF T = S THEN S ELSE ReachIn(g, T)

Main == Range(depGraph.MainModules)

\* C5: for every reachable identifier the effective version is the greatest
\* version requested by a line whose source is reachable at its own
\* effective version.  The requests of the root modules and a root's own
\* version are counted as requested as well.
C5_EffectiveIsMaxRequested ==
    op = "generate" =>
        LET effective == EffectiveLines
        IN \A n \in DOMAIN depGraph.reachableModules :
            LET requested ==
                    {Rhs(i).version : i \in {j \in effective : Rhs(j).name = n}}
                    \cup {Rhs(i).version : i \in {j \in Parsed :
                              Rhs(j).name = n /\ Lhs(j).name \in RootNames}}
                    \cup {Lhs(i).version : i \in {j \in Parsed :
                              Lhs(j).name = n /\ n \in RootNames}}
            IN /\ Eff(n) \in requested
               /\ \A v \in requested : ~strLess(Eff(n), v)

\* the release components of a version: the numbers between the dots after
\* an optional "v"; NotNumeric when the version is not of that shape
NotNumeric == <<-1>>

RECURSIVE Components(_, _, _)
Components(s, cur, acc) ==
    IF s = <<>> THEN (IF cur < 0 THEN NotNumeric ELSE Append(acc, cur))
    ELSE IF s[1] = 46
    THEN (IF cur < 0 THEN NotNumeric ELSE Components(Tail(s), -1, Append(acc, cur)))
    ELSE IF s[1] \in 48..57
    THEN Components(Tail(s), (IF cur < 0 THEN 0 ELSE cur) * 10 + (s[1] - 48), acc)
    ELSE NotNumeric

Release(v) ==
    IF v # <<>> /\ v[1] = 118 THEN Components(Tail(v), -1, <<>>)
    ELSE Components(v, -1, <<>>)

\* a < b on release components, component by component
RECURSIVE ReleaseLess(_, _)
ReleaseLess(a, b) ==
    IF b = <<>> THEN FALSE
    ELSE IF a = <<>> THEN TRUE
    ELSE IF a[1] # b[1] THEN a[1] < b[1]
    ELSE ReleaseLess(Tail(a), Tail(b))

\* the version order of the contract: numeric when both sides are release
\* versions, byte-wise otherwise; an equal version is not greater
VersionGreater(a, b) ==
    IF Release(a) # NotNumeric /\ Release(b) # NotNumeric
    THEN ReleaseLess(Release(b), Release(a))
    ELSE strLess(b, a)

\* C14: the version generateGraph settles on for a module its root modules
\* require is one of the versions they require, and none of them is
\* greater in the version order (numeric for release versions, so that
\* v1.10.0 wins over v1.9.0).
C14_NumericVersionOrder ==
    op = "generate" =>
        LET roots == Range(depGraph.versionedMainModules)
            byRoot == {i \in Parsed : Lhs(i) \in roots}
        IN \A n \in {Rhs(i).name : i \in byRoot} \ RootNames :
              LET requested == {Rhs(i).version : i \in {j \in byRoot : Rhs(j).name = n}}
              IN /\ Eff(n) \in requested
                 /\ \A v \in requested : ~VersionGreater(v, Eff(n))

\* the text without its lines of fewer than two fields
WellFormed(l) == Len(l) >= 2

\* C15: a line of fewer than two fields does not make generateGraph fail,
\* and the result is the one for the text without such lines.
C15_MalformedLinesSkipped ==
    op = "generate" =>
        /\ ~depGraph.panic
        /\ depGraph = generateGraph(SelectSeq(lines, WellFormed), mainModules)

\* C17: where the max depth is computed from an overview with no main
\* module, the computation does not fail, the depth is 0 and the three
\* counts are those of the overview's lists.
C17_NoMainModuleDepthZero ==
    (op \in {"computeStats", "statsCmd"} /\ Len(depGraph.MainModules) = 0) =>
        /\ ~stats.panic
        /\ stats.MaxDepth = 0
        /\ stats.DirectDeps = Len(depGraph.DirectDepList)
        /\ stats.TransDeps = Len(depGraph.TransDepList)
        /\ stats.TotalDeps =
              Cardinality(Range(depGraph.DirectDepList) \cup Range(depGraph.TransDepList))

\* the part of C17 that is about computeStats alone
ComputeStatsNoMainModule ==
    (op = "computeStats" /\ Len(depGraph.MainModules) = 0) =>
        (~stats.panic /\ stats.MaxDepth = 0)

\* C7 as stated: every node of Graph is reachable along Graph edges from a
\* module of MainModules.
C7_ReachableFromMainModules ==
    op = "generate" =>
        GraphNodes(depGraph.Graph) \subseteq ReachIn(depGraph.Graph, Main)

\* C7 amended: every node of Graph is reachable along Graph edges from a
\* module of MainModules or from the source of the first parsed line.
C7_ReachableFromRoots ==
    op = "generate" =>
        GraphNodes(depGraph.Graph) \subseteq ReachIn(depGraph.Graph, Main \cup FirstSource)

C7_Witness ==
    /\ op = "generate"
    /\ mainModules # <<>>
    /\ FirstSource \cap Main = {}
    /\ StaleLines # {}
    /\ \E n \in GraphNodes(depGraph.Graph) : n \notin ReachIn(depGraph.Graph, Main)
    /\ \E n \in GraphNodes(depGraph.Graph) : n \notin ReachIn(depGraph.Graph, FirstSource)

\* C8 as stated: DirectDepList holds the targets of edges from a main module
\* to a non-main module, TransDepList the targets of edges between two
\* non-main modules, and no main module is in either list.
C8_ListsExcludeMainModules ==
    op = "generate" =>
        /\ Range(depGraph.DirectDepList) =
              {e[2] : e \in {f \in GraphEdges(depGraph.Graph) :
                                f[1] \in Main /\ f[2] \notin Main}}
        /\ Range(depGraph.TransDepList) =
              {e[2] : e \in {f \in GraphEdges(depGraph.Graph) :
                                f[1] \notin Main /\ f[2] \notin Main}}
        /\ Range(depGraph.DirectDepList) \cap Main = {}
        /\ Range(depGraph.TransDepList) \cap Main = {}

\* C8 amended: DirectDepList holds the targets of edges from a main module
\* to a non-main module; TransDepList holds the targets of all edges whose
\* source is not a main module, main modules included; an edge between two
\* main modules adds to neither list; no main module is in DirectDepList.
C8_Classification ==
    op = "generate" =>
        LET main == Main
            edges == GraphEdges(depGraph.Graph)
        IN /\ Range(depGraph.DirectDepList) =
                 {e[2] : e \in {f \in edges : f[1] \in main /\ f[2] \notin main}}
           /\ Range(depGraph.TransDepList) =
                 {e[2] : e \in {f \in edges : f[1] \notin main}}
           /\ Range(depGraph.DirectDepList) \cap main = {}
           /\ IsDupFree(depGraph.DirectDepList)
           /\ IsDupFree(depGraph.TransDepList)

C8_Witness ==
    /\ op = "generate"
    /\ Range(depGraph.TransDepList) \cap Main # {}
    /\ \E e \in GraphEdges(depGraph.Graph) : e[1] \in Main /\ e[2] \in Main /\ e[1] # e[2]
    /\ depGraph.DirectDepList # <<>>

\* C9: the edges of Graph and the entries of the two lists are exactly what
\* the lines with a reachable source at its effective version give; a line
\* whose source carries another version adds nothing.  For the
\* overridden-versions text with main modules [A, D]: direct [B, C, G],
\* transitive [C, D, F], and E nowhere.
C9_OnlyEffectiveLines ==
    op = "generate" =>
        LET effective == EffectiveLines
            main == Main
        IN /\ GraphEdges(depGraph.Graph) =
                 {<<Lhs(i).name, Rhs(i).name>> : i \in effective}
           /\ Range(depGraph.DirectDepList) =
                 {Rhs(i).name : i \in {j \in effective :
                                   Lhs(j).name \in main /\ Rhs(j).name \notin main}}
           /\ Range(depGraph.TransDepList) =
                 {Rhs(i).name : i \in {j \in effective : Lhs(j).name \notin main}}
           /\ (lines = OverriddenVersions /\ mainModules = <<1, 4>> =>
                 /\ depGraph.DirectDepList = <<2, 3, 7>>
                 /\ depGraph.TransDepList = <<3, 4, 6>>
                 /\ 5 \notin GraphNodes(depGraph.Graph))

C9_Witness ==
    /\ op = "generate"
    /\ lines = OverriddenVersions
    /\ mainModules = <<1, 4>>
    /\ StaleLines # {}
    /\ depGraph.TransDepList = <<3, 4, 6>>

\* ---------------------------------------------------------------------
\* Diff properties
\* ---------------------------------------------------------------------
\* C18: what the diff from A to B reports as added is what the diff from B
\* to A reports as removed, and the other way round, for the dependency
\* lists and for the edge lists.
C18_DiffSymmetry ==
    op = "diff" =>
        /\ diffResult.Added = diffSwapped.Removed
        /\ diffResult.Removed = diffSwapped.Added
        /\ diffResult.EdgesAdded = diffSwapped.EdgesRemoved
        /\ diffResult.EdgesRemoved = diffSwapped.EdgesAdded

\* dependencies of an overview, and the modules C19 names: dependencies at
\* both refs with two recorded, different versions
DepsOf(d) == Range(d.DirectDepList) \cup Range(d.TransDepList)

Changed ==
    {dep \in DepsOf(vcBase) \cap DepsOf(vcHead) :
        /\ Get(vcBase.Versions, dep, NoVersion) # NoVersion
        /\ Get(vcHead.Versions, dep, NoVersion) # NoVersion
        /\ Get(vcBase.Versions, dep, NoVersion) # Get(vcHead.Versions, dep, NoVersion)}

\* C19: the result lists exactly the modules that are dependencies at both
\* refs with two non-empty, different versions, with those versions, in
\* ascending order of the module path; a module that is no dependency at
\* head is not listed.
C19_VersionChanges ==
    op = "versionChanges" =>
        /\ Range(versionChanges) =
              {[Path |-> dep, Before |-> vcBase.Versions[dep], After |-> vcHead.Versions[dep]] :
                 dep \in Changed}
        /\ \A i, j \in 1..Len(versionChanges) :
              i < j => versionChanges[i].Path < versionChanges[j].Path
        /\ \A i \in 1..Len(versionChanges) : versionChanges[i].Path \in DepsOf(vcHead)

\* two changes found in descending order of the base lists, and a module
\* dropped at head whose recorded versions differ
C19_Witness ==
    /\ op = "versionChanges"
    /\ Len(versionChanges) = 2
    /\ vcBase.DirectDepList = <<3, 2>>
    /\ \E dep \in DepsOf(vcBase) \ DepsOf(vcHead) :
          /\ vcBase.Versions[dep] # NoVersion
          /\ vcHead.Versions[dep] # NoVersion
          /\ vcBase.Versions[dep] # vcHead.Versions[dep]

\* a filtered diff of two refs that classify differently, with additions
\* left after the filter and a removal taken out by it
C18_Witness ==
    /\ op = "diff"
    /\ filter # ""
    /\ baseTestOnly # headTestOnly
    /\ diffResult.Added # <<>>
    /\ diffResult.EdgesAdded # <<>>
    /\ diffResult.Removed = <<>>
    /\ runDiff(lines, headLines, mainModules, "", {}, {}).Removed # <<>>

\* ---------------------------------------------------------------------
\* Diff engine properties
\* ---------------------------------------------------------------------
\* pairs <<node, flag>> reachable from the pairs of S along the edges E; the
\* flag is TRUE once a diff edge has been walked
RECURSIVE FlagClosure(_, _)
FlagClosure(S, E) ==
    LET T == S \cup {<<p[2][2], (p[1][2] \/ p[2] \in Range(diffEdges))>> :
                        p \in {q \in S \X E : q[2][1] = q[1][1]}}
    IN IF T = S THEN S ELSE FlagClosure(T, E)

\* the subgraph induced by the diff nodes holds a walk from u to v that
\* does not use the edge u -> v and walks at least one diff edge
HasAlternateDiffPath(u, v) ==
    LET E == EdgesOf(subGraphOf(graph, diffNodes)) \ {<<u, v>>}
        first == {<<e[2], e \in Range(diffEdges)>> : e \in {f \in E : f[1] = u}}
    IN <<v, TRUE>> \in FlagClosure(first, E)

\* C6: a diff edge is dropped only if there is an alternate path with a
\* diff edge inside the diff-node subgraph; without one it is kept.
C6_DropOnlyWithAlternateDiffPath ==
    op = "reduce" =>
        \A i \in 1..Len(diffEdges) :
            ~contains(reduced, diffEdges[i]) =>
                HasAlternateDiffPath(diffEdges[i][1], diffEdges[i][2])

\* ---------------------------------------------------------------------
\* Cycle finder: map iteration order and stack depth
\* ---------------------------------------------------------------------
\* C21: a run of the cycle finder returns the same cycles in the same order
\* whatever order the runtime iterates its maps in: every order of the
\* blockedMap entries leaves each unblock call in the same finder state, and
\* every order in which the node set is collected sorts to the same node list.
C21_MapOrderIndependent ==
    op = "cycles" =>
        /\ finderRun.orderFree
        /\ \A e \in Perms(SortSet(nodeSetOf(graph))) :
              sortStrings(e, "id") = newCyclesFinder(graph, maxLength).indexNode

\* a run in which one unblock call ranged over two blockedMap entries or more
C21_Witness ==
    /\ op = "cycles"
    /\ finderRun.fanout >= 2
    /\ cycles # <<>>

IsCheckout(e) == e.kind = "checkout"

\* the git checkouts runDiff has run, in order
Checkouts == SelectSeq(gitLog, IsCheckout)

\* C23: when runDiff has completed without error, its last git checkout was
\* of the ref that was current when it started, and the repository is on
\* that ref.
C23_EndsOnOriginalRef ==
    (pc = "done" /\ exit = "ok") =>
        /\ Checkouts # <<>>
        /\ Checkouts[Len(Checkouts)].tree = originalRef
        /\ Checkouts[Len(Checkouts)].what = "restore"
        /\ repoHead = originalRef

\* runDiff returned nil although its restoring checkout failed
C23_RestoreFailed ==
    /\ pc = "done"
    /\ exit = "ok"
    /\ Checkouts[Len(Checkouts)].what = "restore"
    /\ ~Checkouts[Len(Checkouts)].ok
    /\ repoHead # originalRef

\* positions in gitLog of the entries of one kind for one snapshot
At(kind, what) == {i \in 1..Len(gitLog) : gitLog[i].kind = kind /\ gitLog[i].what = what}

\* the entries between the successful checkout of a snapshot's commit and
\* the next checkout, whatever its outcome
Within(what) ==
    {i \in 1..Len(gitLog) :
        \E c \in At("checkout", what) :
            /\ gitLog[c].ok
            /\ c < i
            /\ \A d \in 1..Len(gitLog) : (IsCheckout(gitLog[d]) /\ d > c) => i < d}

\* C27: the base graph and the base classification are computed after the
\* base checkout and before the head checkout, on the base commit; the head
\* graph and the head classification after the head checkout and before the
\* restoring checkout, on the head commit; and a snapshot that needs a
\* classification has it before the next checkout.
C27_SnapshotsSerialized ==
    /\ \A i \in At("graph", "base") \cup At("classify", "base") :
          i \in Within("base") /\ gitLog[i].tree = baseSHA
    /\ \A i \in At("graph", "head") \cup At("classify", "head") :
          i \in Within("head") /\ gitLog[i].tree = headSHA
    /\ \A what \in {"base", "head"} :
          \A c \in At("checkout", what) :
             (gitLog[c].ok /\ needClassification
                /\ \E d \in 1..Len(gitLog) : IsCheckout(gitLog[d]) /\ d > c
                /\ At("graph", what) # {})
             => \/ At("classify", what) # {}
                \/ exit \in {"error", "panic"}

\* a complete run with both classifications on two different commits
C27_Witness ==
    /\ pc = "done"
    /\ exit = "ok"
    /\ needClassification
    /\ baseSHA # headSHA
    /\ At("classify", "base") # {}
    /\ At("classify", "head") # {}

\* C29: however runDiff stops after it has checked out the base ref, the
\* ref that was current at the start has been handed to git checkout again
\* by the time the process has ended.
C29_RestoredOnEveryExit ==
    (pc = "done" /\ \E c \in At("checkout", "base") : gitLog[c].ok) =>
        \E r \in At("checkout", "restore") :
            /\ gitLog[r].tree = originalRef
            /\ \A c \in At("checkout", "base") : c < r

\* the process ended in log.Fatal with the base commit checked out
C29_FatalOnBase ==
    /\ pc = "done"
    /\ exit = "fatal"
    /\ At("checkout", "restore") = {}
    /\ repoHead = baseSHA
    /\ repoHead # originalRef

\* the full graph without the nodes that are not diff nodes: their adjacency
\* lists are empty and no adjacency list names them
WithoutOtherNodes ==
    LET isDiffNode(n) == n \in diffNodes
    IN [n \in DOMAIN graph |->
           IF isDiffNode(n) THEN SelectSeq(graph[n], isDiffNode) ELSE <<>>]

\* the diff edges a search of the full graph would keep
KeptInFullGraph ==
    LET kept(e) == ~reachableViaDiffPath(e[1], e[2], graph, Range(diffEdges))
    IN SelectSeq(diffEdges, kept)

\* C24: the result for the full graph is the result for the graph from
\* which every node that is not a diff node has been removed, so no diff
\* edge is dropped on account of a path through such a node.
C24_OnlyDiffNodesCount ==
    op = "reduce" =>
        /\ reduced = transitiveReduceEdges(diffEdges, WithoutOtherNodes, diffNodes)
        /\ \A i \in 1..Len(diffEdges) :
              ~contains(reduced, diffEdges[i]) =>
                  reachableViaDiffPath(diffEdges[i][1], diffEdges[i][2],
                                       WithoutOtherNodes, Range(diffEdges))

\* a diff edge is kept although the full graph holds a walk for it that
\* passes through a node outside the diff nodes
C24_Witness ==
    /\ op = "reduce"
    /\ graph # WithoutOtherNodes
    /\ reduced # KeptInFullGraph

\* C25: with a cap k >= 1 the path stack of the cycle finder never holds
\* more than k nodes, and every cycle returned has at most k edges.
C25_StackWithinCap ==
    (op = "cycles" /\ maxLength >= 1) =>
        /\ finderRun.peak <= maxLength
        /\ \A i \in 1..Len(cycles) : Len(cycles[i]) - 1 <= maxLength

\* the cap cut the search short: the stack was filled up to the cap and the
\* graph holds a longer cycle
C25_Witness ==
    /\ op = "cycles"
    /\ maxLength >= 1
    /\ finderRun.peak = maxLength
    /\ cycles # <<>>
    /\ \E c \in ElementaryCycles(graph) : Len(c) - 1 > maxLength

\* ---------------------------------------------------------------------
\* Path finder: after the cap
\* ---------------------------------------------------------------------
\* C26: with maxPaths > 0, once the output list holds maxPaths entries no
\* call of findAllPaths is made any more, at any depth, and no path is
\* recorded any more.
C26_NothingAfterCap ==
    (op = "paths" /\ maxPaths > 0) =>
        /\ lateCalls = 0
        /\ Len(paths) <= maxPaths

\* the cap was reached at depth two or more while the loops of the active
\* calls still had neighbours to go to
C26_Witness ==
    /\ op = "paths"
    /\ maxPaths > 0
    /\ Len(paths) = maxPaths
    /\ Len(UnboundedPaths) > maxPaths
    /\ Len(paths[Len(paths)]) >= 3

\* ---------------------------------------------------------------------
\* Longest chain on acyclic graphs
\* ---------------------------------------------------------------------
\* the nodes a walk of one edge or more leads to from the nodes of S
RECURSIVE ReachedFrom(_, _)
ReachedFrom(g, S) ==
    LET T == S \cup UNION {Range(g[n]) : n \in S}
    IN IF T = S THEN S ELSE ReachedFrom(g, T)

Successors(g, n) == ReachedFrom(g, Range(g[n]))

\* no node reachable from start lies on a cycle
AcyclicFrom(g, start) ==
    \A n \in {start} \cup Successors(g, start) : n \notin Successors(g, n)

\* C28: where the graph reachable from start is acyclic, the chain returned
\* is a path from start with as many nodes as the longest path from start.
C28_LongestChainOnAcyclic ==
    (op = "chain" /\ AcyclicFrom(graph, chainStart)) =>
        /\ Len(chain) = LongestFrom(graph, <<chainStart>>)
        /\ chain[1] = chainStart
        /\ IsWalkIn(graph, chain)

\* an acyclic graph in which the first dependency of start does not lead
\* to the longest chain and a node is reached along two paths
C28_Witness ==
    /\ op = "chain"
    /\ AcyclicFrom(graph, chainStart)
    /\ Len(chain) >= 3
    /\ Len(graph[chainStart]) >= 2
    /\ Len(longestChains[graph[chainStart][1]]) + 1 < Len(chain)

\* ---------------------------------------------------------------------
\* Vanity URL resolution properties
\* ---------------------------------------------------------------------
\* number of positions of the sequence s that hold x
RECURSIVE Occurrences(_, _)
Occurrences(s, x) ==
    IF s = <<>> THEN 0
    ELSE (IF s[1] = x THEN 1 ELSE 0) + Occurrences(Tail(s), x)

\* number of entries for module m in the lists of the repos of R
RECURSIVE OccurrencesIn(_, _)
OccurrencesIn(R, m) ==
    IF R = {} THEN 0
    ELSE LET r == CHOOSE x \in R : TRUE
         IN Occurrences(resolved[r], m) + OccurrencesIn(R \ {r}, m)

\* C30: after resolveVanityURLs has returned, every module handed in is
\* in one list of resolved once or in unresolved once, and nowhere else,
\* nothing else is in these lists, and the call gets past wg.Wait only when
\* every goroutine is over.
C30_EachModuleOnce ==
    /\ vanityPc = "returned" =>
          /\ \A i \in 1..Len(mods) :
                OccurrencesIn(DOMAIN resolved, mods[i]) + Occurrences(unresolved, mods[i]) = 1
          /\ \A i \in 1..Len(mods) :
                IF repoOf[i] = NoRepo
                THEN Occurrences(unresolved, mods[i]) = 1
                ELSE /\ repoOf[i] \in DOMAIN resolved
                     /\ Occurrences(resolved[repoOf[i]], mods[i]) = 1
          /\ \A r \in DOMAIN resolved : Range(resolved[r]) \subseteq Range(mods)
          /\ Range(unresolved) \subseteq Range(mods)
    /\ vanityPc \in {"sort", "returned"} =>
          /\ spawned = Len(mods)
          /\ \A i \in 1..Len(mods) : gpc[i] = "done"

\* two goroutines appended to the same list and the call has returned
C30_Witness ==
    /\ vanityPc = "returned"
    /\ Len(mods) >= 2
    /\ \/ Len(unresolved) >= 2
       \/ \E r \in DOMAIN resolved : Len(resolved[r]) >= 2

====
